---- MODULE Spec2Model ----
(***************************************************************************)
(* A model of the journal-following and event-projection engine of the     *)
(* ED mining suite.                                                        *)
(*                                                                         *)
(* Three tail readers exist in the repository and all three are modelled:  *)
(*   "gamelog" : services/service_gamelog.py  JournalMonitor               *)
(*   "edlog"   : ed_log_reader.py             JournalReader                *)
(*   "legacy"  : journal_reader.py            JournalReader                *)
(*                                                                         *)
(* The event projector of the two services (process_line and the handlers) *)
(* and the lifecycle of the service processes (PID file, heartbeat row,     *)
(* signals, the launcher) are modelled after the tail readers.             *)
(*                                                                         *)
(* A journal file is a sequence of bytes.  Byte 0 is the newline; a byte   *)
(* k > 0 is a character of the k-th line the game ever started to write,   *)
(* so that every line has its own content and a line is told from a        *)
(* fragment of it by its length.                                           *)
(***************************************************************************)
EXTENDS Integers, Sequences, FiniteSets, TLC

\* ------------------------------------------------------------------ bounds
MaxNames == 2      \* journal file name tokens 1..MaxNames, ordered as their names
MaxLines == 3      \* lines the game starts to write in one behaviour
LineLen  == 2      \* characters of a line before its newline
MaxTruncs == 1     \* truncations of a journal file in one behaviour
TailWindow == 2048 \* bytes the legacy reader re-reads from the end of the file
MaxProcs == 2      \* ingestion processes ever launched in one behaviour
heartbeat_interval == 10  \* service_gamelog: loop iterations per heartbeat write

Names == 1..MaxNames
NL == 0
None == 0          \* "no file": current_file is None / handle not open

VARIABLES
  \* ---- the journal directory (owned by the game client)
  exists,        \* the set of journal files present
  content,       \* content[f]: the bytes of file f
  mtimeOrd,      \* the present files, least recently modified first
  ctimeOrd,      \* the present files, in the order of their creation
  nextId,        \* the id of the next line the game starts
  truncs,        \* truncations so far
  \* ---- the tail reader
  impl,          \* which of the three readers this behaviour runs
  started,       \* the reader object exists (the service has reached its loop)
  current_file,  \* JournalMonitor.current_file / JournalReader.current_file
  file_handle,   \* the file the open handle reads, None when no handle is open
  position,      \* last_position / position: the offset of the next read
  last_line,     \* legacy reader: the last line it returned
  \* ---- history (not program state)
  delivered,     \* every line returned by a poll so far, in order
  followStart,   \* the offset in the followed file at which following began
  growOnly,      \* no rotation and no truncation since following began
  lastPoll,      \* what the most recent poll saw and returned
  preOpen,       \* the ids of the complete lines the open file held when opened
  faults,        \* the I/O errors polls have met so far
  \* ---- the projector and the store
  batch,         \* the lines one poll returned, handed to the projector in order
  bi,            \* the index in batch of the next line to hand over
  store,         \* the tables of the store the projector writes
  \* ---- history of the projector (not program state)
  rowsBefore,    \* the number of prospected_asteroids rows before the last line
  handled,       \* the lines a handler has run for, in order
  raised,        \* process_line let an exception out to the loop
  \* ---- the ingestion processes (LogReaderService), one entry per process
  pc,            \* where the process is in main / start / the loop / stop
  running,       \* self.running
  database,      \* ed_log_reader: self.database is set and open
  journal_reader,\* "none", "open" or "closed": the process's tail reader
  old_pid,       \* ed_log_reader: the pid _create_pid_file read from the PID file
  heartbeat_counter, \* service_gamelog: iterations since the last heartbeat write
  ret,           \* service_gamelog: where the signal handler returns to
  exit_status,   \* the exit status of the process, AbsentInt while it has none
  \* ---- shared by the processes
  pid_file,      \* the pid in ed_log_reader.pid, None when the file is absent
  heartbeat,     \* the service_status row: is_running and pid
  \* ---- the launcher (LogReaderManager)
  lpc,           \* where the launcher is in start / stop / restart
  process,       \* self.process: the process the launcher spawned, or None
  \* ---- history of the processes (not program state)
  signalled,     \* the process has received SIGINT / SIGTERM
  stall,         \* loop iterations finished since the process's last heartbeat write
  stale,         \* last_heartbeat is more than two polling intervals old
  start_failure, \* why the start of the process failed: "" / "refused" / "no_journal"
  \* ---- the store behind its accessors (DatabaseManager)
  db,            \* the tables: singleton rows, row lists, and the clock of the store
  call,          \* history: the last accessor call, its arguments, the tables before it
  \* ---- the journal files as lines, and the startup scan of ed_log_reader
  events,        \* events[f]: the lines of file f, as json.loads sees them
  scanned,       \* the file read_initial_state has read, None before the scan
  \* ---- the chat window (ChatMonitor)
  last_timestamp,\* self.last_timestamp: the journal timestamp of the last row fetched
  shown          \* history: the chat_messages rows added to the table, in order

tailVars == <<exists, content, mtimeOrd, ctimeOrd, nextId, truncs, impl, started,
              current_file, file_handle, position, last_line,
              delivered, followStart, growOnly, lastPoll, preOpen, faults>>

projVars == <<batch, bi, store, rowsBefore, handled, raised>>

svcVars == <<pc, running, database, journal_reader, old_pid, heartbeat_counter, ret,
             pid_file, heartbeat, lpc, process, signalled, stall, stale,
             exit_status, start_failure>>

dbVars == <<db, call>>

seedVars == <<events, scanned>>

chatVars == <<last_timestamp, shown>>

vars == <<tailVars, projVars, svcVars, dbVars, seedVars, chatVars>>

Procs == 1..MaxProcs

\* ------------------------------------------------------------ sequences
Last(s) == s[Len(s)]

Remove(s, x) == SelectSeq(s, LAMBDA y: y # x)

IsPrefix(s, t) == Len(s) <= Len(t) /\ SubSeq(t, 1, Len(s)) = s

SetMax(S) == CHOOSE x \in S : \A y \in S : y <= x

\* The bytes of `bytes` from offset `pos` (0-based) to the end; nothing when the
\* offset is at or past the end (a seek past end-of-file reads nothing).
From(bytes, pos) == IF pos >= Len(bytes) THEN <<>> ELSE SubSeq(bytes, pos + 1, Len(bytes))

\* The index of the first newline of `data`, 0 when it has none.
FirstNL(data) ==
  IF \E i \in 1..Len(data) : data[i] = NL
  THEN CHOOSE i \in 1..Len(data) : data[i] = NL /\ \A j \in 1..(i - 1) : data[j] # NL
  ELSE 0

\* file.readline(): the bytes up to and including the next newline, or, when no
\* newline follows, whatever is left (an unterminated fragment); <<>> at end-of-file.
ReadLine(data) ==
  IF FirstNL(data) = 0 THEN data ELSE SubSeq(data, 1, FirstNL(data))

\* file.readlines(): readline() until it returns nothing.
RECURSIVE ReadLines(_)
ReadLines(data) ==
  IF data = <<>> THEN <<>>
  ELSE <<ReadLine(data)>> \o ReadLines(From(data, Len(ReadLine(data))))

\* str.strip() of a raw line: the journal's characters are not whitespace, so it
\* removes exactly the trailing newline.
Strip(line) == SelectSeq(line, LAMBDA b: b # NL)

\* The partial (unterminated) tail of a file: the bytes after its last newline.
RECURSIVE PartialTail(_)
PartialTail(bytes) ==
  IF bytes = <<>> \/ Last(bytes) = NL THEN <<>>
  ELSE PartialTail(SubSeq(bytes, 1, Len(bytes) - 1)) \o <<Last(bytes)>>

MidLine(bytes) == PartialTail(bytes) # <<>>

\* The complete lines of a file, stripped.
CompleteLines(bytes) ==
  LET raw == ReadLines(bytes)
  IN  [i \in 1..(IF MidLine(bytes) THEN Len(raw) - 1 ELSE Len(raw)) |-> Strip(raw[i])]

\* A whole line as the game writes it: LineLen characters of one line.
IsWholeLine(l) == Len(l) = LineLen /\ \A i \in 1..Len(l) : l[i] = l[1]

\* The ids of the complete lines of a file.
LineIds(bytes) ==
  {CompleteLines(bytes)[i][1] :
     i \in {j \in 1..Len(CompleteLines(bytes)) : CompleteLines(bytes)[j] # <<>>}}

\* ------------------------------------------------------- the file locators
\* service_gamelog find_latest_journal: max(..., key=st_mtime).
LatestByMtime == IF exists = {} THEN None ELSE Last(mtimeOrd)

\* ed_log_reader _find_latest_journal: sort(reverse=True)[0], the greatest name.
LatestByName == IF exists = {} THEN None ELSE SetMax(exists)

\* journal_reader get_latest_journal: max(..., key=os.path.getctime).
LatestByCtime == IF exists = {} THEN None ELSE Last(ctimeOrd)

\* The locator of the reader this behaviour runs.
find_latest_journal ==
  IF impl = "gamelog" THEN LatestByMtime
  ELSE IF impl = "edlog" THEN LatestByName ELSE LatestByCtime

\* ------------------------------------------------------ the game client
NoPoll == [newest |-> None, eof |-> 0]

\* The game (or anything else) creates journal file f, empty.
CreateFile(f) ==
  /\ f \notin exists
  /\ exists' = exists \cup {f}
  /\ content' = [content EXCEPT ![f] = <<>>]
  /\ mtimeOrd' = Append(mtimeOrd, f)
  /\ ctimeOrd' = Append(ctimeOrd, f)
  /\ growOnly' = (growOnly /\ ~started)
  /\ UNCHANGED <<nextId, truncs, impl, started, current_file, file_handle, position,
                 last_line, delivered, followStart, lastPoll>>
  /\ UNCHANGED <<preOpen, faults, projVars, svcVars, dbVars, seedVars, chatVars>>

\* The file the game writes: the journal it created last.
Active == IF exists = {} THEN None ELSE Last(ctimeOrd)

\* One more byte reaches file f: a character of the line being written, or the
\* newline that completes it.
AppendByte(f) ==
  LET t == PartialTail(content[f])
      newline == Len(t) = LineLen
      b == IF newline THEN NL ELSE IF t = <<>> THEN nextId ELSE Last(t)
  IN  /\ f \in exists /\ f = Active
      /\ newline \/ t # <<>> \/ nextId <= MaxLines
      /\ content' = [content EXCEPT ![f] = Append(@, b)]
      /\ nextId' = IF ~newline /\ t = <<>> THEN nextId + 1 ELSE nextId
      /\ mtimeOrd' = Append(Remove(mtimeOrd, f), f)
      /\ UNCHANGED <<exists, ctimeOrd, truncs, impl, started, current_file, file_handle,
                     position, last_line, delivered, followStart, growOnly, lastPoll>>
  /\ UNCHANGED <<preOpen, faults, projVars, svcVars, dbVars, seedVars, chatVars>>

\* File f is truncated to n bytes, a line boundary before its end.
Truncate(f, n) ==
  /\ f \in exists
  /\ truncs < MaxTruncs
  /\ truncs' = truncs + 1
  /\ n < Len(content[f])
  /\ (IF n = 0 THEN TRUE ELSE content[f][n] = NL)
  /\ content' = [content EXCEPT ![f] = SubSeq(@, 1, n)]
  /\ mtimeOrd' = Append(Remove(mtimeOrd, f), f)
  /\ growOnly' = (growOnly /\ ~started)
  /\ UNCHANGED <<exists, ctimeOrd, nextId, impl, started, current_file, file_handle,
                 position, last_line, delivered, followStart, lastPoll>>
  /\ UNCHANGED <<preOpen, faults, projVars, svcVars, dbVars, seedVars, chatVars>>

\* A handle that has been closed and not replaced: every read of it raises.
Closed == 0 - 2

\* ------------------------------------------- services/service_gamelog.py
\* An open that leaves the read offset at the start of the file.
open_from_start(f) == <<f, f, 0>>

\* JournalMonitor.open_journal: open, seek to the end, remember the offset.
\* Returns <<current_file, file_handle, last_position>>.
open_journal(f) == <<f, f, Len(content[f])>>

\* JournalMonitor.check_for_new_file: reopen when the locator names another file.
check_for_new_file ==
  IF LatestByMtime # None /\ LatestByMtime # current_file
  THEN open_journal(LatestByMtime)
  ELSE <<current_file, file_handle, position>>

\* What a poll sees before it reads, when a file with a greater name than the
\* followed one has appeared and is the one written last: that file and its size.
Seen ==
  IF current_file # None /\ LatestByName # current_file /\ LatestByMtime = LatestByName
  THEN [newest |-> LatestByName, eof |-> Len(content[LatestByName])]
  ELSE NoPoll

\* LogReaderService.start: locate and open the latest journal, or give up.
StartGamelog ==
  /\ impl = "gamelog" /\ ~started
  /\ LatestByMtime # None
  /\ started' = TRUE
  /\ current_file' = open_journal(LatestByMtime)[1]
  /\ file_handle' = open_journal(LatestByMtime)[2]
  /\ position' = open_journal(LatestByMtime)[3]
  /\ followStart' = open_journal(LatestByMtime)[3]
  /\ growOnly' = TRUE
  /\ UNCHANGED <<exists, content, mtimeOrd, ctimeOrd, nextId, truncs, impl, last_line,
                 delivered, lastPoll>>
  /\ preOpen' = LineIds(content[LatestByMtime])
  /\ UNCHANGED <<faults, projVars, svcVars, dbVars, seedVars, chatVars>>

\* The list comprehension of read_new_lines: strip each line, drop the empty ones.
StripNonEmpty(lines) ==
  SelectSeq([i \in 1..Len(lines) |-> Strip(lines[i])], LAMBDA l: l # <<>>)

\* JournalMonitor.read_new_lines, and _run_loop handing each line to the projector.
PollGamelog ==
  /\ impl = "gamelog" /\ started
  /\ file_handle # None
  /\ check_for_new_file[2] # Closed   \* the seek on a closed handle raises: return []
  /\ LET o == check_for_new_file
         lines == ReadLines(From(content[o[2]], o[3]))
     IN  /\ current_file' = o[1]
         /\ file_handle' = o[2]
         /\ position' = IF o[3] >= Len(content[o[2]]) THEN o[3] ELSE Len(content[o[2]])
         /\ delivered' = delivered \o StripNonEmpty(lines)
         /\ followStart' = IF o[1] # current_file THEN o[3] ELSE followStart
         /\ growOnly' = (growOnly /\ o[1] = current_file)
         /\ preOpen' = IF o[1] # current_file THEN LineIds(content[o[2]]) ELSE preOpen
  /\ lastPoll' = Seen
  /\ UNCHANGED <<exists, content, mtimeOrd, ctimeOrd, nextId, truncs, impl, started,
                 last_line>>
  /\ UNCHANGED <<faults, projVars, svcVars, dbVars, seedVars, chatVars>>

\* ------------------------------------------------------- ed_log_reader.py
\* JournalReader.__init__ / _find_latest_journal: the greatest name, or raise.
StartEdlog ==
  /\ impl = "edlog" /\ ~started
  /\ LatestByName # None
  /\ started' = TRUE
  /\ current_file' = LatestByName
  /\ growOnly' = TRUE
  /\ UNCHANGED <<exists, content, mtimeOrd, ctimeOrd, nextId, truncs, impl, file_handle,
                 position, last_line, delivered, followStart, lastPoll>>
  /\ UNCHANGED <<preOpen, faults, projVars, svcVars, dbVars, seedVars, chatVars>>

\* JournalReader.get_latest_line, and _main_loop handing the line to the projector
\* when it is not empty.
PollEdlog ==
  /\ impl = "edlog" /\ started
  /\ file_handle # Closed             \* readline on a closed handle raises: return None
  /\ LET opened == file_handle = None
         h == IF opened THEN current_file ELSE file_handle
         pos == IF opened THEN Len(content[h]) ELSE position
         line == ReadLine(From(content[h], pos))
         truncated == line = <<>> /\ pos > Len(content[current_file])
     IN  /\ delivered' = IF Strip(line) # <<>> THEN Append(delivered, Strip(line)) ELSE delivered
         /\ current_file' = IF truncated THEN LatestByName ELSE current_file
         /\ file_handle' = IF truncated THEN LatestByName ELSE h
         /\ position' = IF truncated THEN Len(content[LatestByName]) ELSE pos + Len(line)
         /\ followStart' = IF truncated THEN Len(content[LatestByName])
                           ELSE IF opened THEN pos ELSE followStart
         /\ growOnly' = (growOnly /\ ~truncated)
         /\ preOpen' = IF truncated THEN LineIds(content[LatestByName])
                       ELSE IF opened THEN LineIds(content[h]) ELSE preOpen
  /\ lastPoll' = Seen
  /\ UNCHANGED <<exists, content, mtimeOrd, ctimeOrd, nextId, truncs, impl, started,
                 last_line>>
  /\ UNCHANGED <<faults, projVars, svcVars, dbVars, seedVars, chatVars>>

\* ------------------------------------------------------- journal_reader.py
\* JournalReader.__init__: no file is opened, last_line is empty.  The file the
\* locator names now is the one whose appends are followed from here on.
StartLegacy ==
  /\ impl = "legacy" /\ ~started
  /\ started' = TRUE
  /\ last_line' = <<>>
  /\ followStart' = IF LatestByCtime = None THEN 0 ELSE Len(content[LatestByCtime])
  /\ growOnly' = TRUE
  /\ UNCHANGED <<exists, content, mtimeOrd, ctimeOrd, nextId, truncs, impl, current_file,
                 file_handle, position, delivered, lastPoll>>
  /\ UNCHANGED <<preOpen, faults, projVars, svcVars, dbVars, seedVars, chatVars>>

\* The last line of the last TailWindow bytes of file f, stripped; <<>> when the
\* file is empty.
current_last_line(f) ==
  LET size == Len(content[f])
      lines == ReadLines(From(content[f], IF size > TailWindow THEN size - TailWindow ELSE 0))
  IN  IF lines = <<>> THEN <<>> ELSE Strip(Last(lines))

\* JournalReader.get_latest_line: the last line of the file, if it is not the one
\* returned before.
PollLegacy ==
  /\ impl = "legacy" /\ started
  /\ LET f == LatestByCtime
         new == f # None /\ current_last_line(f) # <<>> /\ current_last_line(f) # last_line
     IN  /\ last_line' = IF new THEN current_last_line(f) ELSE last_line
         /\ delivered' = IF new THEN Append(delivered, current_last_line(f)) ELSE delivered
  /\ UNCHANGED <<exists, content, mtimeOrd, ctimeOrd, nextId, truncs, impl, started,
                 current_file, file_handle, position, followStart, growOnly, lastPoll>>
  /\ UNCHANGED <<preOpen, faults, projVars, svcVars, dbVars, seedVars, chatVars>>

\* ----------------------------------------------------------- tail readers
\* The store as _create_tables leaves it: the singleton rows with their defaults,
\* the other tables empty.
EmptyStore ==
  [game_state |-> [commander_name |-> "Unknown", current_system |-> "Unknown"],
   ship_status |-> [cargo_capacity |-> 0, cargo_count |-> 0, limpet_count |-> 0,
                    commander_credits |-> 0],
   prospected_asteroids |-> <<>>,
   refined_materials |-> <<>>,
   chat_messages |-> <<>>,
   fleet_carriers |-> <<>>,
   fss_signals |-> <<>>,
   material_config |-> <<>>,
   material_config_seq |-> 0]

ProjIdle ==
  /\ batch = <<>>
  /\ bi = 1
  /\ store = EmptyStore
  /\ rowsBefore = 0
  /\ handled = <<>>
  /\ raised = FALSE

\* The tables as _create_tables leaves them, the clock of the store at 0, and no
\* accessor called yet.  A singleton row holds None in a column without default.
EmptyDb ==
  [game_state |-> [commander_name |-> "Unknown", current_system |-> "Unknown",
                   log_file_path |-> "", last_updated |-> 0],
   ship_status |-> [cargo_capacity |-> 0, cargo_count |-> 0, limpet_count |-> 0,
                    commander_credits |-> 0, last_updated |-> 0],
   service_status |-> [is_running |-> FALSE, pid |-> None, last_heartbeat |-> 0,
                       journal_file |-> ""],
   prospected_asteroids |-> <<>>,
   material_config |-> <<>>,
   material_config_seq |-> 0,
   chat_messages |-> <<>>,
   clock |-> 0]

NoCall == [op |-> "", args |-> <<>>, before |-> EmptyDb, result |-> <<>>]

DbIdle ==
  /\ db = EmptyDb
  /\ call = NoCall

\* No ingestion process has been launched; the service_status row has the
\* defaults of the schema.
SvcIdle ==
  /\ pc = [p \in Procs |-> "idle"]
  /\ running = [p \in Procs |-> FALSE]
  /\ database = [p \in Procs |-> FALSE]
  /\ journal_reader = [p \in Procs |-> "none"]
  /\ old_pid = [p \in Procs |-> None]
  /\ heartbeat_counter = [p \in Procs |-> 0]
  /\ ret = [p \in Procs |-> "idle"]
  /\ pid_file = None
  /\ heartbeat = [is_running |-> FALSE, pid |-> None]
  /\ lpc = "idle"
  /\ process = None
  /\ signalled = [p \in Procs |-> FALSE]
  /\ stall = [p \in Procs |-> 0]
  /\ stale = FALSE
  /\ exit_status = [p \in Procs |-> 0 - 1]
  /\ start_failure = [p \in Procs |-> ""]

TailInit ==
  /\ exists = {}
  /\ content = [f \in Names |-> <<>>]
  /\ mtimeOrd = <<>>
  /\ ctimeOrd = <<>>
  /\ nextId = 1
  /\ truncs = 0
  /\ impl \in {"gamelog", "edlog", "legacy"}
  /\ started = FALSE
  /\ current_file = None
  /\ file_handle = None
  /\ position = 0
  /\ last_line = <<>>
  /\ delivered = <<>>
  /\ followStart = 0
  /\ growOnly = TRUE
  /\ lastPoll = NoPoll
  /\ preOpen = {}
  /\ faults = 0
  /\ events = [f \in Names |-> <<>>]
  /\ scanned = None
  /\ last_timestamp = 0
  /\ shown = <<>>

TailNext ==
  \/ \E f \in Names : CreateFile(f)
  \/ \E f \in Names : AppendByte(f)
  \/ \E f \in Names : \E n \in 0..(MaxLines * (LineLen + 1)) : Truncate(f, n)
  \/ StartGamelog
  \/ PollGamelog
  \/ StartEdlog
  \/ PollEdlog
  \/ StartLegacy
  \/ PollLegacy

TailSpecInit == TailInit /\ ProjIdle /\ SvcIdle /\ DbIdle

SpecTail == TailSpecInit /\ [][TailNext]_vars

\* ------------------------------------------------------ properties: tail reader
\* The file whose appends the reader follows.
FollowedFile == IF impl = "legacy" THEN LatestByCtime ELSE current_file

\* The complete lines appended to the followed file since following began.
AppendedSince ==
  IF FollowedFile = None THEN <<>>
  ELSE CompleteLines(From(content[FollowedFile], followStart))

\* C1: for a journal that only grows (no rotation, no truncation since the reader
\* began following), the lines returned by the polls so far are, in order and
\* without gap, duplicate or split, the first of the complete lines appended to
\* the followed file since following began.
C1_GrowOnlyBatches ==
  (started /\ growOnly) => IsPrefix(delivered, AppendedSince)

\* C2: a poll never returns an unterminated fragment (every returned line is a
\* whole line), and the offset of a reader following a growing file never stands
\* inside a line it has started to read: it is the offset following began at or
\* the offset after a newline.
C2_NoPartialLine ==
  /\ \A i \in 1..Len(delivered) : IsWholeLine(delivered[i])
  /\ (started /\ growOnly /\ file_handle # None /\ impl # "legacy")
       => \/ position = followStart
          \/ (position > 0 /\ position <= Len(content[file_handle])
                /\ content[file_handle][position] = NL)

\* C3: a poll made when a file with a greater name than the followed one has
\* appeared, and the followed one has not grown since, leaves the reader
\* following the new file at the end-of-file the poll saw.
C3_RotationSafety ==
  lastPoll.newest # None =>
    /\ current_file = lastPoll.newest
    /\ file_handle = lastPoll.newest
    /\ position = lastPoll.eof

\* C7: the lines the service loops hand to the projector are whole journal lines,
\* in the order they were written, none of them twice.
C7_FileOrderAtMostOnce ==
  impl \in {"gamelog", "edlog"} =>
    /\ \A i \in 1..Len(delivered) : IsWholeLine(delivered[i])
    /\ \A i, j \in 1..Len(delivered) : i < j => delivered[i][1] < delivered[j][1]

\* C11: the locator returns the present journal file with the greatest name,
\* whatever the order in which the files were created or last modified, and
\* nothing (None) when there is no journal file.
C11_LocatorSelection ==
  find_latest_journal = (IF exists = {} THEN None ELSE SetMax(exists))

\* A step returns no line that the open file held, complete, at its latest open.
NoReplayStep ==
  impl \in {"gamelog", "edlog"} =>
    \A i \in (Len(delivered) + 1)..Len(delivered') : ~(delivered'[i][1] \in preOpen')

\* C12: the readers of the two services never return a line that was complete in
\* the file when they opened it: every line a poll adds to the returned ones is
\* absent from the lines the file held at its latest open.
C12_NoReplayOnOpen == [][NoReplayStep]_vars

\* A reader that opened a file holding complete lines has since returned a line.
C12_Witness ==
  /\ impl \in {"gamelog", "edlog"}
  /\ preOpen # {}
  /\ delivered # <<>>
  /\ file_handle # None

\* ============================================================ the projector
\* A journal line is modelled by what json.loads makes of it: `valid` tells whether
\* it parses, the other fields are the keys of the decoded object, AbsentStr or
\* AbsentInt standing for a key the object does not have.  A name is a sequence
\* of tokens, so that removing "_Name" from it is an operation on it.
MaxBatch == 3       \* lines in the batch of one poll
MaxMaterials == 2   \* entries of a prospecting event's material list

AbsentStr == "<absent>"
AbsentInt == 0 - 1

GetS(v, default) == IF v = AbsentStr THEN default ELSE v
GetI(v, default) == IF v = AbsentInt THEN default ELSE v
GetN(v, default) == IF v = <<AbsentStr>> THEN default ELSE v

Proportions == {12, 63}
MaterialEntries ==
  [Name : {<<"Platinum">>, <<"Osmium", "_Name">>}, Name_Localised : {<<AbsentStr>>},
   Proportion : Proportions]

MaterialLists ==
  UNION {[1..n -> MaterialEntries] : n \in 0..MaxMaterials}

BlankEvent ==
  [valid |-> TRUE, event |-> "", timestamp |-> "t1", Commander |-> AbsentStr,
   Name |-> AbsentStr, Credits |-> AbsentInt, StarSystem |-> AbsentStr,
   Materials |-> <<>>, MotherlodeMaterial |-> <<AbsentStr>>,
   MotherlodeAmount |-> AbsentInt, Content |-> <<AbsentStr>>,
   Content_Localised |-> <<AbsentStr>>, Remaining |-> AbsentInt,
   Type |-> <<AbsentStr>>, Type_Localised |-> <<AbsentStr>>,
   TotalSale |-> AbsentInt, TotalCost |-> AbsentInt, BaseValue |-> AbsentInt,
   Bonus |-> AbsentInt, Channel |-> <<AbsentStr>>, From_Localised |-> <<AbsentStr>>,
   SignalName |-> <<AbsentStr>>, SignalName_Localised |-> <<AbsentStr>>,
   IsStation |-> FALSE, Modules |-> <<>>, SystemAddress |-> AbsentInt,
   Inventory |-> <<>>]

\* A line that is not JSON.
Garbage == [BlankEvent EXCEPT !.valid = FALSE]

ProspectingEvents ==
  {[BlankEvent EXCEPT !.event = "ProspectedAsteroid", !.Materials = m,
                      !.MotherlodeMaterial = mm, !.MotherlodeAmount = ma,
                      !.Content = <<"$AsteroidMaterialContent_", "Medium", ";">>,
                      !.Content_Localised = <<"Material Content: ", "Medium">>,
                      !.Remaining = 100] :
     m \in MaterialLists, mm \in {<<AbsentStr>>, <<"Painite">>}, ma \in {AbsentInt, 0, 1}}

\* The lines the batches of several lines are made of.
BatchLines ==
  { Garbage,
    [BlankEvent EXCEPT !.event = "Music"],
    [BlankEvent EXCEPT !.event = "Docked", !.StarSystem = "Sol"],
    [BlankEvent EXCEPT !.event = "LoadGame", !.Commander = "Jameson", !.Credits = 500],
    [BlankEvent EXCEPT !.event = "Commander", !.Name = "Jameson"],
    [BlankEvent EXCEPT !.event = "FSDJump", !.StarSystem = "Sol"],
    [BlankEvent EXCEPT !.event = "Location", !.StarSystem = "Deciat"],
    [BlankEvent EXCEPT !.event = "MiningRefined", !.Type = <<"Osmium", "_Name">>,
                       !.timestamp = "t2"],
    [BlankEvent EXCEPT !.event = "ProspectedAsteroid",
                       !.Materials = <<[Name |-> <<"Platinum">>,
                                        Name_Localised |-> <<AbsentStr>>,
                                        Proportion |-> 63]>>,
                       !.MotherlodeMaterial = <<"Painite">>,
                       !.Content_Localised = <<"Material Content: ", "Medium">>,
                       !.Content = <<"$AsteroidMaterialContent_", "Medium", ";">>,
                       !.Remaining = 100, !.timestamp = "t2"] }

\* `token in text`, for a text that is a sequence of tokens.
Contains(text, token) == \E i \in 1..Len(text) : text[i] = token

\* str.replace('_Name', '') on a name.
RemoveNameSuffix(name) == SelectSeq(name, LAMBDA t: t # "_Name")

\* ------------------------------ core/core_database.py add_chat_message
\* A text is a sequence of fragments, so that a word can hold a key inside it
\* ("Swing") and a key can span words ("system defence").  str.lower() maps each
\* fragment to its lower-case form.
LowerFragment(t) ==
  CASE t \in {"System", "SYSTEM"}     -> "system"
    [] t \in {"Defence", "DEFENCE"}   -> "defence"
    [] t \in {"Security", "SECURITY"} -> "security"
    [] t = "Pirate"                   -> "pirate"
    [] t = "Wing"                     -> "wing"
    [] t = "Local"                    -> "local"
    [] t = "Squadron"                 -> "squadron"
    [] t = "FRIEND"                   -> "friend"
    [] t = "Patrol"                   -> "patrol"
    [] t = "Lord"                     -> "lord"
    [] t = "Bob"                      -> "bob"
    [] t = "S"                        -> "s"
    [] t = "Unknown"                  -> "unknown"
    [] t \in {"Limpet", "LIMPET"}     -> "limpet"
    [] OTHER                          -> t

lower(text) == [i \in DOMAIN text |-> LowerFragment(text[i])]

\* `key in text`, for texts that are sequences of fragments.
In(key, text) ==
  \E i \in 0..(Len(text) - Len(key)) : SubSeq(text, i + 1, i + Len(key)) = key

\* A classification that looks at the channel before the sender.
ChannelFirst(channel, from_loc) ==
  IF channel \in {<<"system">>, <<"local">>}
  THEN "system"
  ELSE IF channel = <<"squadron">>
  THEN "sq"
  ELSE IF channel = <<"friend">>
  THEN "friends"
  ELSE IF In(<<"security">>, lower(from_loc)) \/ In(<<"system", " ", "defence">>, lower(from_loc))
  THEN "sec"
  ELSE IF In(<<"pirate">>, lower(from_loc)) \/ In(<<"wing">>, lower(from_loc))
  THEN "pirate"
  ELSE "other"

\* The subtype add_chat_message derives.
Subtype(channel, from_loc) ==
  IF In(<<"security">>, lower(from_loc)) \/ In(<<"system", " ", "defence">>, lower(from_loc))
  THEN "sec"
  ELSE IF In(<<"pirate">>, lower(from_loc)) \/ In(<<"wing">>, lower(from_loc))
  THEN "pirate"
  ELSE IF channel \in {<<"system">>, <<"local">>}
  THEN "system"
  ELSE IF channel = <<"squadron">>
  THEN "sq"
  ELSE IF channel = <<"friend">>
  THEN "friends"
  ELSE "other"

add_chat_message(d, data) ==
  LET channel  == lower(GetN(data.Channel, <<"unknown">>))
      from_loc == GetN(data.From_Localised, <<"Unknown">>)
  IN  [d EXCEPT !.chat_messages =
         Append(@, [journal_timestamp |-> data.timestamp, channel |-> channel,
                    from_localised |-> from_loc,
                    subtype |-> Subtype(channel, from_loc)])]

\* --------------------------- services/service_gamelog.py JournalProcessor
\* The events JournalProcessor has a _handle_<event> method for (among the events
\* of the model).
GamelogHandlers == {"LoadGame", "Location", "FSDJump", "Docked", "ProspectedAsteroid",
                    "MiningRefined", "MarketSell", "MarketBuy", "SellExplorationData",
                    "Loadout", "FSSSignalDiscovered", "ReceiveText", "Cargo"}

\* An identity load that adds the credits it carries to the balance.
LoadGameAdds(st, d) ==
  [st EXCEPT !.game_state.commander_name = GetS(d.Commander, "Unknown"),
             !.ship_status.commander_credits = @ + GetI(d.Credits, 0)]

handle_LoadGame(st, d) ==
  [st EXCEPT !.game_state.commander_name = GetS(d.Commander, "Unknown"),
             !.ship_status.commander_credits = GetI(d.Credits, 0)]

handle_Location(st, d) ==
  [st EXCEPT !.game_state.current_system = GetS(d.StarSystem, "Unknown")]

\* The percentage _handle_ProspectedAsteroid stores for a material entry.
GamelogPercentage(material) == GetI(material.Proportion, 0) * 100

\* The row _handle_ProspectedAsteroid inserts for one entry of the material list.
GamelogRow(d, material) ==
  LET motherlode == GetI(d.MotherlodeAmount, 0)
  IN  [journal_timestamp |-> d.timestamp,
       material_name |-> RemoveNameSuffix(GetN(material.Name, <<"Unknown">>)),
       percentage |-> GamelogPercentage(material),
       is_motherlode |-> motherlode > 0,
       content_level |-> GetN(d.Content, <<"Unknown">>),
       is_surface |-> motherlode = 0,
       is_deepcore |-> motherlode > 0,
       remaining |-> GetI(d.Remaining, 100),
       processed |-> FALSE]

\* The rows _handle_ProspectedAsteroid inserts for an event.
GamelogRows(d) == [i \in 1..Len(d.Materials) |-> GamelogRow(d, d.Materials[i])]

handle_ProspectedAsteroid(st, d) ==
  [st EXCEPT !.prospected_asteroids = @ \o GamelogRows(d)]

handle_MiningRefined(st, d) ==
  [st EXCEPT !.refined_materials =
     Append(@, [journal_timestamp |-> d.timestamp,
                material_name |-> RemoveNameSuffix(GetN(d.Type, <<"Unknown">>)),
                material_type |-> <<"mining">>])]

\* The sum _handle_Loadout makes over the modules that carry a CargoCapacity.
RECURSIVE ModulesCapacity(_)
ModulesCapacity(modules) ==
  IF modules = <<>>
  THEN 0
  ELSE (IF Head(modules).CargoCapacity # AbsentInt THEN Head(modules).CargoCapacity ELSE 0)
         + ModulesCapacity(Tail(modules))

handle_Loadout(st, d) ==
  LET cargo_capacity == ModulesCapacity(d.Modules)
  IN  IF cargo_capacity > 0
      THEN [st EXCEPT !.ship_status.cargo_capacity = cargo_capacity]
      ELSE st

\* INSERT OR REPLACE INTO fleet_carriers: signal_name is UNIQUE, so the row of the
\* same name, if any, gives way to the new one.
\* A plain INSERT INTO fleet_carriers, as if signal_name were not UNIQUE.
insert_fleet_carrier(st, signal_name, system_address, system_name, discovered_timestamp) ==
  [st EXCEPT !.fleet_carriers =
     Append(@, [signal_name |-> signal_name, system_address |-> system_address,
                system_name |-> system_name,
                discovered_timestamp |-> discovered_timestamp])]

add_fleet_carrier(st, signal_name, system_address, system_name, discovered_timestamp) ==
  [st EXCEPT !.fleet_carriers =
     Append(SelectSeq(@, LAMBDA r: r.signal_name # signal_name),
            [signal_name |-> signal_name, system_address |-> system_address,
             system_name |-> system_name,
             discovered_timestamp |-> discovered_timestamp])]

add_fss_signal(st, signal_name, signal_type, is_station, system_address, system_name, journal_timestamp) ==
  [st EXCEPT !.fss_signals =
     Append(@, [signal_name |-> signal_name, signal_type |-> signal_type,
                is_station |-> is_station, system_address |-> system_address,
                system_name |-> system_name,
                journal_timestamp |-> journal_timestamp])]

handle_FSSSignalDiscovered(st, d) ==
  LET signal_name == GetN(d.SignalName, <<"Unknown">>)
      signal_type == GetN(d.SignalName_Localised, signal_name)
      system_address == GetI(d.SystemAddress, 0)
      system_name == st.game_state.current_system
  IN  IF Contains(signal_type, "FleetCarrier") \/ Last(signal_name) = ")"
      THEN add_fleet_carrier(st, signal_name, system_address, system_name, d.timestamp)
      ELSE IF d.IsStation
      THEN add_fss_signal(st, signal_name, signal_type, d.IsStation, system_address,
                          system_name, d.timestamp)
      ELSE st

\* A test that sees only the lower-case spelling.
IsLimpetExact(item) == In(<<"limpet">>, GetN(item.Name, <<"">>))

\* `'limpet' in name` of _handle_Cargo, name being the lower-cased item name.
IsLimpet(item) == In(<<"limpet">>, lower(GetN(item.Name, <<"">>)))

\* The two sums _handle_Cargo makes over the inventory: the counts of the limpet
\* items, and the counts of the others.
RECURSIVE InventoryCount(_, _)
InventoryCount(inventory, limpets) ==
  IF inventory = <<>>
  THEN 0
  ELSE (IF IsLimpet(Head(inventory)) = limpets THEN GetI(Head(inventory).Count, 0) ELSE 0)
         + InventoryCount(Tail(inventory), limpets)

handle_Cargo(st, d) ==
  [st EXCEPT !.ship_status.cargo_count = InventoryCount(d.Inventory, FALSE),
             !.ship_status.limpet_count = InventoryCount(d.Inventory, TRUE)]

handle_ReceiveText(st, d) == add_chat_message(st, d)

\* The economy handlers: get_ship_status, add or subtract, update_ship_status.
handle_MarketSell(st, d) ==
  [st EXCEPT !.ship_status.commander_credits = @ + GetI(d.TotalSale, 0)]

MarketBuyAdds(st, d) ==
  [st EXCEPT !.ship_status.commander_credits = @ + GetI(d.TotalCost, 0)]

handle_MarketBuy(st, d) ==
  [st EXCEPT !.ship_status.commander_credits = @ - GetI(d.TotalCost, 0)]

handle_SellExplorationData(st, d) ==
  [st EXCEPT !.ship_status.commander_credits =
     @ + (GetI(d.BaseValue, 0) + GetI(d.Bonus, 0))]

GamelogDispatch(st, d) ==
  CASE d.event = "LoadGame" -> handle_LoadGame(st, d)
    [] d.event = "MarketSell" -> handle_MarketSell(st, d)
    [] d.event = "MarketBuy" -> handle_MarketBuy(st, d)
    [] d.event = "SellExplorationData" -> handle_SellExplorationData(st, d)
    [] d.event \in {"Location", "FSDJump"} -> handle_Location(st, d)
    [] d.event = "ProspectedAsteroid" -> handle_ProspectedAsteroid(st, d)
    [] d.event = "MiningRefined" -> handle_MiningRefined(st, d)
    [] d.event = "Loadout" -> handle_Loadout(st, d)
    [] d.event = "Cargo" -> handle_Cargo(st, d)
    [] d.event = "FSSSignalDiscovered" -> handle_FSSSignalDiscovered(st, d)
    [] d.event = "ReceiveText" -> handle_ReceiveText(st, d)
    [] OTHER -> st

\* ------------------------------------ ed_log_reader.py LogReaderService
EdlogHandlers == {"ProspectedAsteroid", "MiningRefined", "Location", "FSDJump",
                  "CarrierJump", "Commander", "LoadGame"}

\* DatabaseManager.update_game_state(commander, system): only the arguments that
\* are set (truthy) are written.
update_game_state(st, commander, system) ==
  [st EXCEPT !.game_state.commander_name = IF commander # "" THEN commander ELSE @,
             !.game_state.current_system = IF system # "" THEN system ELSE @]

\* The content level of _handle_prospected_asteroid: the first of Low, Medium, High
\* the localised descriptor contains.
ContentLevel(descriptor) ==
  CASE Contains(descriptor, "Low") -> <<"Low">>
    [] Contains(descriptor, "Medium") -> <<"Medium">>
    [] Contains(descriptor, "High") -> <<"High">>
    [] OTHER -> <<"Unknown">>

\* The percentage _handle_prospected_asteroid stores for a material entry.
EdlogPercentage(material) == GetI(material.Proportion, 0)

\* The row stored for one entry of the material list.
EdlogSurfaceRow(d, material) ==
  [journal_timestamp |-> d.timestamp,
   material_name |-> GetN(material.Name_Localised, GetN(material.Name, <<"Unknown">>)),
   percentage |-> EdlogPercentage(material),
   is_motherlode |-> FALSE,
   content_level |-> ContentLevel(GetN(d.Content_Localised, <<"Unknown">>)),
   is_surface |-> TRUE,
   is_deepcore |-> FALSE,
   remaining |-> GetI(d.Remaining, 100),
   processed |-> FALSE]

\* The row stored for the motherlode material.
EdlogMotherlodeRow(d) ==
  [journal_timestamp |-> d.timestamp,
   material_name |-> d.MotherlodeMaterial,
   percentage |-> 100,
   is_motherlode |-> TRUE,
   content_level |-> ContentLevel(GetN(d.Content_Localised, <<"Unknown">>)),
   is_surface |-> TRUE,
   is_deepcore |-> TRUE,
   remaining |-> GetI(d.Remaining, 100),
   processed |-> FALSE]

EdlogRows(d) ==
  [i \in 1..Len(d.Materials) |-> EdlogSurfaceRow(d, d.Materials[i])]
    \o (IF d.MotherlodeMaterial # <<AbsentStr>> THEN <<EdlogMotherlodeRow(d)>> ELSE <<>>)

handle_prospected_asteroid(st, d) ==
  [st EXCEPT !.prospected_asteroids = @ \o EdlogRows(d)]

handle_mining_refined(st, d) ==
  [st EXCEPT !.refined_materials =
     Append(@, [journal_timestamp |-> d.timestamp,
                material_name |-> GetN(d.Type_Localised, GetN(d.Type, <<"Unknown">>)),
                material_type |-> GetN(d.Type, <<"Unknown">>)])]

EdlogDispatch(st, d) ==
  CASE d.event = "ProspectedAsteroid" -> handle_prospected_asteroid(st, d)
    [] d.event = "MiningRefined" -> handle_mining_refined(st, d)
    [] d.event \in {"Location", "FSDJump", "CarrierJump"} ->
         update_game_state(st, "", GetS(d.StarSystem, "Unknown"))
    [] d.event = "Commander" -> update_game_state(st, GetS(d.Name, "Unknown"), "")
    [] d.event = "LoadGame" -> update_game_state(st, GetS(d.Commander, "Unknown"), "")
    [] OTHER -> st

\* ------------------------------------------------- process_line, both services
Handlers == IF impl = "gamelog" THEN GamelogHandlers ELSE EdlogHandlers

Dispatch(st, d) == IF impl = "gamelog" THEN GamelogDispatch(st, d) ELSE EdlogDispatch(st, d)

\* What process_line / _process_journal_line does with a line: json.loads, the
\* dispatch on the event, and the except clauses around both.  The outcome is
\* "handled" (a handler ran), "unhandled" (no handler: nothing but a debug log),
\* "discarded" (the JSON error was caught and logged) or "raised".
Decode(line) == IF line.valid THEN "object" ELSE "JSONDecodeError"

\* The exceptions the except clauses of process_line catch (and log).
CatchesNothing(exc) == FALSE

Caught(exc) == exc \in {"JSONDecodeError", "Exception"}

Outcome(line) ==
  IF Decode(line) # "object"
  THEN IF Caught(Decode(line)) THEN "discarded" ELSE "raised"
  ELSE IF line.event \in Handlers THEN "handled" ELSE "unhandled"

process_line(st, line) == IF Outcome(line) = "handled" THEN Dispatch(st, line) ELSE st

\* One turn of `for line in lines: self.processor.process_line(line)`: an
\* exception out of process_line ends the for loop, the loop's except logs it.
ProcessLine ==
  /\ bi <= Len(batch)
  /\ ~raised
  /\ LET line == batch[bi]
     IN  /\ store' = process_line(store, line)
         /\ raised' = (Outcome(line) = "raised")
         /\ handled' = IF Outcome(line) = "handled" THEN Append(handled, bi) ELSE handled
  /\ rowsBefore' = Len(store.prospected_asteroids)
  /\ bi' = bi + 1
  /\ UNCHANGED <<batch, tailVars, svcVars, dbVars, seedVars, chatVars>>

ProjInit ==
  /\ TailInit
  /\ SvcIdle
  /\ DbIdle
  /\ impl \in {"gamelog", "edlog"}
  /\ batch \in UNION {[1..n -> BatchLines] : n \in 0..MaxBatch}
                 \cup {<<e>> : e \in ProspectingEvents}
  /\ bi = 1
  /\ store = EmptyStore
  /\ rowsBefore = 0
  /\ handled = <<>>
  /\ raised = FALSE

ProjNext == ProcessLine

\* The lines of a trading session: two game loads with different balances, the
\* three economy events (one of them without its bonus), and a line that is not
\* JSON.
CreditLines ==
  { Garbage,
    [BlankEvent EXCEPT !.event = "LoadGame", !.Commander = "Jameson", !.Credits = 500],
    [BlankEvent EXCEPT !.event = "LoadGame", !.Commander = "Jameson", !.Credits = 900],
    [BlankEvent EXCEPT !.event = "MarketSell", !.TotalSale = 30],
    [BlankEvent EXCEPT !.event = "MarketBuy", !.TotalCost = 20],
    [BlankEvent EXCEPT !.event = "SellExplorationData", !.BaseValue = 7, !.Bonus = 3],
    [BlankEvent EXCEPT !.event = "SellExplorationData", !.BaseValue = 7] }

CreditInit ==
  /\ TailInit
  /\ SvcIdle
  /\ DbIdle
  /\ impl = "gamelog"
  /\ batch \in UNION {[1..n -> CreditLines] : n \in 0..MaxBatch}
  /\ bi = 1
  /\ store = EmptyStore
  /\ rowsBefore = 0
  /\ handled = <<>>
  /\ raised = FALSE

CreditNext == ProcessLine

SpecCredits == CreditInit /\ [][CreditNext]_vars

SpecProj == ProjInit /\ [][ProjNext]_vars

\* -------------------------------------------------------- properties: projector
\* The last line handed to the projector, when it is a prospecting event.
LastLine == batch[bi - 1]

AfterProspecting ==
  bi > 1 /\ LastLine.valid /\ LastLine.event = "ProspectedAsteroid"

\* The rows the last line added.
Added ==
  SubSeq(store.prospected_asteroids, rowsBefore + 1, Len(store.prospected_asteroids))

HasMotherlode(d) == d.MotherlodeMaterial # <<AbsentStr>>

\* C8: a prospecting event with N listed materials stores N rows, and one more
\* when it carries a motherlode material: that one row has percentage 100, deepcore
\* and motherlode set, and no other row of the event has them set.
C8_ProspectingFanOut ==
  AfterProspecting =>
    LET n == Len(LastLine.Materials)
    IN  IF HasMotherlode(LastLine)
        THEN /\ Len(Added) = n + 1
             /\ Added[n + 1].material_name = LastLine.MotherlodeMaterial
             /\ Added[n + 1].percentage = 100
             /\ Added[n + 1].is_deepcore
             /\ Added[n + 1].is_motherlode
             /\ \A i \in 1..n : ~Added[i].is_motherlode
        ELSE Len(Added) = n

\* C9: the percentage stored for each entry of the material list is the entry's
\* Proportion, unchanged.
C9_PercentagePassthrough ==
  AfterProspecting =>
    /\ Len(Added) >= Len(LastLine.Materials)
    /\ \A i \in 1..Len(LastLine.Materials) :
         Added[i].percentage = LastLine.Materials[i].Proportion

\* A line a handler runs for.
Good(line) == line.valid /\ line.event \in Handlers

\* The store after the handlers of the good lines among the first n of the batch
\* have run in order.
RECURSIVE GoodOnly(_)
GoodOnly(n) ==
  IF n = 0 THEN EmptyStore
  ELSE IF Good(batch[n]) THEN Dispatch(GoodOnly(n - 1), batch[n]) ELSE GoodOnly(n - 1)

\* C10: whatever lines a batch holds, no line stops the loop; the lines handed to a
\* handler so far are exactly the valid lines with a handler, each once and in
\* order, and the store is what those lines alone make it: a malformed or
\* unhandled line changes nothing.
C10_BadLineResilience ==
  /\ ~raised
  /\ handled = SelectSeq([i \in 1..(bi - 1) |-> i], LAMBDA i: Good(batch[i]))
  /\ store = GoodOnly(bi - 1)

\* A batch of three lines with a malformed one in the middle has been worked off:
\* two projections, and the store has changed.
C10_Witness ==
  /\ Len(batch) = 3 /\ bi = 4
  /\ ~batch[2].valid /\ Good(batch[1]) /\ Good(batch[3])
  /\ Len(handled) = 2
  /\ store # EmptyStore

\* ------------------------------------------------ the ingestion processes
\* The process is there: launched, and neither exited nor killed.  This is what
\* os.kill(pid, 0) probes.
Alive(p) == p \in Procs /\ pc[p] \notin {"idle", "exited", "killed"}

\* stop() is on the stack of the process.
InStop(p) == pc[p] \in {"stop_flag", "stop_close", "stop_unlock"}

\* The process is in its Running loop.
InLoop(p) == pc[p] \in {"loop", "poll"} /\ running[p]

\* Pids are handed out in order: the next process to be launched.
NextPid == IF \E p \in Procs : pc[p] = "idle"
           THEN CHOOSE p \in Procs : pc[p] = "idle" /\ \A q \in Procs : pc[q] = "idle" => p <= q
           ELSE None

\* The user runs the service script.
Spawn(p) ==
  /\ p = NextPid
  /\ pc' = [pc EXCEPT ![p] = "start"]
  /\ UNCHANGED <<tailVars, projVars, dbVars, seedVars, chatVars, exit_status, start_failure, stale,
                 running, database, journal_reader, old_pid, heartbeat_counter, ret,
                 pid_file, heartbeat, lpc, process, signalled, stall>>

\* ---- ed_log_reader.py LogReaderService._create_pid_file
\* os.path.exists(pid_file) and the read of the pid in it.
PidFileCheck(p) ==
  /\ impl = "edlog" /\ pc[p] = "start"
  /\ old_pid' = [old_pid EXCEPT ![p] = pid_file]
  /\ pc' = [pc EXCEPT ![p] = IF pid_file = None THEN "pid_write" ELSE "pid_probe"]
  /\ UNCHANGED <<tailVars, projVars, dbVars, seedVars, chatVars, exit_status, start_failure, stale,
                 running, database, journal_reader, heartbeat_counter, ret,
                 pid_file, heartbeat, lpc, process, signalled, stall>>

\* os.kill(old_pid, 0): a live holder refuses the start (RuntimeError, and start()
\* calls stop()); a dead one has its file removed, and os.remove raises when the
\* file is no longer there.
PidFileProbe(p) ==
  /\ impl = "edlog" /\ pc[p] = "pid_probe"
  /\ IF Alive(old_pid[p]) \/ pid_file = None
     THEN pc' = [pc EXCEPT ![p] = "stop_flag"] /\ UNCHANGED pid_file
     ELSE pc' = [pc EXCEPT ![p] = "pid_write"] /\ pid_file' = None
  /\ start_failure' = [start_failure EXCEPT ![p] =
                          IF Alive(old_pid[p]) \/ pid_file = None THEN "refused" ELSE @]
  /\ UNCHANGED <<tailVars, projVars, dbVars, seedVars, chatVars, exit_status, stale,
                 running, database, journal_reader, old_pid, heartbeat_counter, ret,
                 heartbeat, lpc, process, signalled, stall>>

\* The process writes its own pid.
PidFileWrite(p) ==
  /\ impl = "edlog" /\ pc[p] = "pid_write"
  /\ pid_file' = p
  /\ pc' = [pc EXCEPT ![p] = "init"]
  /\ UNCHANGED <<tailVars, projVars, dbVars, seedVars, chatVars, exit_status, start_failure, stale,
                 running, database, journal_reader, old_pid, heartbeat_counter, ret,
                 heartbeat, lpc, process, signalled, stall>>

\* ---- ed_log_reader.py LogReaderService.start after the PID file
\* DatabaseManager() and JournalReader(): _find_latest_journal raises when there is
\* no journal and writes the heartbeat when there is one.
InitService(p) ==
  /\ impl = "edlog" /\ pc[p] = "init"
  /\ database' = [database EXCEPT ![p] = TRUE]
  /\ IF exists = {}
     THEN /\ pc' = [pc EXCEPT ![p] = "stop_flag"]
          /\ UNCHANGED <<journal_reader, heartbeat>>
     ELSE /\ pc' = [pc EXCEPT ![p] = "seed"]
          /\ journal_reader' = [journal_reader EXCEPT ![p] = "open"]
          /\ heartbeat' = [is_running |-> TRUE, pid |-> p]
  /\ stale' = (IF exists = {} THEN stale ELSE FALSE)
  /\ start_failure' = [start_failure EXCEPT ![p] = IF exists = {} THEN "no_journal" ELSE @]
  /\ UNCHANGED <<tailVars, projVars, dbVars, seedVars, chatVars, exit_status,
                 running, old_pid, heartbeat_counter, ret, pid_file, lpc, process,
                 signalled, stall>>

\* read_initial_state(), update_service_status(True, pid, file), running = True.
EnterLoop(p) ==
  /\ impl = "edlog" /\ pc[p] = "seed"
  /\ heartbeat' = [is_running |-> TRUE, pid |-> p]
  /\ running' = [running EXCEPT ![p] = TRUE]
  /\ pc' = [pc EXCEPT ![p] = "loop"]
  /\ stale' = FALSE
  /\ UNCHANGED <<tailVars, projVars, dbVars, seedVars, chatVars, exit_status, start_failure,
                 database, journal_reader, old_pid, heartbeat_counter, ret, pid_file,
                 lpc, process, signalled, stall>>

\* ---- ed_log_reader.py LogReaderService._main_loop
\* The heartbeat write that opens every iteration.
LoopHeartbeat(p) ==
  /\ impl = "edlog" /\ pc[p] = "loop" /\ running[p]
  /\ heartbeat' = [is_running |-> TRUE, pid |-> p]
  /\ stall' = [stall EXCEPT ![p] = 0]
  /\ pc' = [pc EXCEPT ![p] = "poll"]
  /\ stale' = FALSE
  /\ UNCHANGED <<tailVars, projVars, dbVars, seedVars, chatVars, exit_status, start_failure,
                 running, database, journal_reader, old_pid, heartbeat_counter, ret,
                 pid_file, lpc, process, signalled>>

\* get_latest_line(), _process_journal_line(), sleep(scan_interval).
LoopPoll(p) ==
  /\ impl = "edlog" /\ pc[p] = "poll"
  /\ stall' = [stall EXCEPT ![p] = stall[p] + 1]
  /\ pc' = [pc EXCEPT ![p] = "loop"]
  /\ UNCHANGED <<tailVars, projVars, dbVars, seedVars, chatVars, exit_status, start_failure, stale,
                 running, database, journal_reader, old_pid, heartbeat_counter, ret,
                 pid_file, heartbeat, lpc, process, signalled>>

\* ---- services/service_gamelog.py LogReaderService.start
\* find_latest_journal() and open_journal(): start returns when there is no journal.
GamelogStart(p) ==
  /\ impl = "gamelog" /\ pc[p] = "start"
  /\ IF exists = {}
     THEN pc' = [pc EXCEPT ![p] = "exited"] /\ UNCHANGED journal_reader
     ELSE /\ pc' = [pc EXCEPT ![p] = "status"]
          /\ journal_reader' = [journal_reader EXCEPT ![p] = "open"]
  /\ start_failure' = [start_failure EXCEPT ![p] = IF exists = {} THEN "no_journal" ELSE @]
  /\ exit_status' = [exit_status EXCEPT ![p] = IF exists = {} THEN 0 ELSE @]
  /\ UNCHANGED <<tailVars, projVars, dbVars, seedVars, chatVars, stale,
                 running, database, old_pid, heartbeat_counter, ret, pid_file,
                 heartbeat, lpc, process, signalled, stall>>

\* update_service_status(is_running=1, pid=os.getpid(), ...).
GamelogStatus(p) ==
  /\ impl = "gamelog" /\ pc[p] = "status"
  /\ heartbeat' = [is_running |-> TRUE, pid |-> p]
  /\ pc' = [pc EXCEPT ![p] = "set_running"]
  /\ stale' = FALSE
  /\ UNCHANGED <<tailVars, projVars, dbVars, seedVars, chatVars, exit_status, start_failure,
                 running, database, journal_reader, old_pid, heartbeat_counter, ret,
                 pid_file, lpc, process, signalled, stall>>

\* self.running = True, and _run_loop() sets its counter to 0.
GamelogSetRunning(p) ==
  /\ impl = "gamelog" /\ pc[p] = "set_running"
  /\ running' = [running EXCEPT ![p] = TRUE]
  /\ heartbeat_counter' = [heartbeat_counter EXCEPT ![p] = 0]
  /\ pc' = [pc EXCEPT ![p] = "loop"]
  /\ UNCHANGED <<tailVars, projVars, dbVars, seedVars, chatVars, exit_status, start_failure, stale,
                 database, journal_reader, old_pid, ret, pid_file, heartbeat,
                 lpc, process, signalled, stall>>

\* ---- services/service_gamelog.py LogReaderService._run_loop
\* One iteration: read_new_lines(), process_line() for each, the counter, the
\* heartbeat write (last_heartbeat only) when the counter reaches the interval,
\* sleep(scan_interval).  The loop ends, and so does the process, when running is
\* false at the top.
GamelogLoop(p) ==
  /\ impl = "gamelog" /\ pc[p] = "loop"
  /\ IF ~running[p]
     THEN /\ pc' = [pc EXCEPT ![p] = "exited"]
          /\ UNCHANGED <<heartbeat_counter, stall>>
     ELSE /\ pc' = pc
          /\ IF heartbeat_counter[p] + 1 >= heartbeat_interval
             THEN /\ heartbeat_counter' = [heartbeat_counter EXCEPT ![p] = 0]
                  /\ stall' = [stall EXCEPT ![p] = 0]
             ELSE /\ heartbeat_counter' = [heartbeat_counter EXCEPT ![p] = heartbeat_counter[p] + 1]
                  /\ stall' = [stall EXCEPT ![p] = stall[p] + 1]
  /\ stale' = (IF running[p] /\ heartbeat_counter[p] + 1 >= heartbeat_interval THEN FALSE ELSE stale)
  /\ exit_status' = [exit_status EXCEPT ![p] = IF ~running[p] THEN 0 ELSE @]
  /\ UNCHANGED <<tailVars, projVars, dbVars, seedVars, chatVars, start_failure,
                 running, database, journal_reader, old_pid, ret, pid_file, heartbeat,
                 lpc, process, signalled>>

\* ---- stop(), both services
\* The service_status row stop() leaves: ed_log_reader writes
\* update_service_status(False, None, None), service_gamelog is_running=0 only.
StatusUntouched(hb) == hb

StoppedStatus(hb) ==
  IF impl = "edlog" THEN [is_running |-> FALSE, pid |-> None]
  ELSE [hb EXCEPT !.is_running = FALSE]

\* running = False and the heartbeat write; ed_log_reader writes only when its
\* database is set, and closes it.
StopFlag(p) ==
  /\ pc[p] = "stop_flag"
  /\ running' = [running EXCEPT ![p] = FALSE]
  /\ heartbeat' = IF impl = "edlog" /\ ~database[p] THEN heartbeat
                  ELSE StoppedStatus(heartbeat)
  /\ database' = [database EXCEPT ![p] = FALSE]
  /\ pc' = [pc EXCEPT ![p] = "stop_close"]
  /\ stale' = (IF impl = "edlog" /\ ~database[p] THEN stale ELSE FALSE)
  /\ UNCHANGED <<tailVars, projVars, dbVars, seedVars, chatVars, exit_status, start_failure,
                 journal_reader, old_pid, heartbeat_counter, ret, pid_file, lpc,
                 process, signalled, stall>>

\* journal_reader.close() / monitor.close().  service_gamelog has no lock to
\* release: its stop() returns here, into whatever the signal interrupted.
StopClose(p) ==
  /\ pc[p] = "stop_close"
  /\ journal_reader' = [journal_reader EXCEPT ![p] =
                          IF journal_reader[p] = "open" THEN "closed" ELSE journal_reader[p]]
  /\ pc' = [pc EXCEPT ![p] = IF impl = "edlog" THEN "stop_unlock" ELSE ret[p]]
  /\ UNCHANGED <<tailVars, projVars, dbVars, seedVars, chatVars, exit_status, start_failure, stale,
                 running, database, old_pid, heartbeat_counter, ret, pid_file,
                 heartbeat, lpc, process, signalled, stall>>

\* ed_log_reader: _remove_pid_file() removes the file whoever wrote it, and the
\* process exits: sys.exit(0) from the signal handler, sys.exit(1) from main after
\* a failed start.
StopUnlock(p) ==
  /\ impl = "edlog" /\ pc[p] = "stop_unlock"
  /\ pid_file' = None
  /\ pc' = [pc EXCEPT ![p] = "exited"]
  /\ exit_status' = [exit_status EXCEPT ![p] = IF signalled[p] THEN 0 ELSE 1]
  /\ UNCHANGED <<tailVars, projVars, dbVars, seedVars, chatVars, start_failure, stale,
                 running, database, journal_reader, old_pid, heartbeat_counter, ret,
                 heartbeat, lpc, process, signalled, stall>>

\* ---- signals
\* What signal_handler / _signal_handler does to process p: it calls stop().
Deliver(p) ==
  /\ pc' = [pc EXCEPT ![p] = "stop_flag"]
  /\ ret' = [ret EXCEPT ![p] = pc[p]]
  /\ signalled' = [signalled EXCEPT ![p] = TRUE]

Signalable(p) == Alive(p) /\ ~InStop(p)

\* SIGINT or SIGTERM from outside.
Signal(p) ==
  /\ Signalable(p)
  /\ Deliver(p)
  /\ UNCHANGED <<tailVars, projVars, dbVars, seedVars, chatVars, exit_status, start_failure, stale,
                 running, database, journal_reader, old_pid, heartbeat_counter,
                 pid_file, heartbeat, lpc, process, stall>>

\* The process dies without running any handler (a crash, SIGKILL).
Kill(p) ==
  /\ Alive(p)
  /\ pc' = [pc EXCEPT ![p] = "killed"]
  /\ UNCHANGED <<tailVars, projVars, dbVars, seedVars, chatVars, exit_status, start_failure, stale,
                 running, database, journal_reader, old_pid, heartbeat_counter, ret,
                 pid_file, heartbeat, lpc, process, signalled, stall>>

\* ---- the clock
\* With no ingestion process left to refresh it, last_heartbeat becomes older than
\* two polling intervals.
HeartbeatAges ==
  /\ ~stale
  /\ \A p \in Procs : ~Alive(p)
  /\ stale' = TRUE
  /\ UNCHANGED <<tailVars, projVars, dbVars, seedVars, chatVars, exit_status, start_failure, pc,
                 running, database, journal_reader, old_pid, heartbeat_counter, ret,
                 pid_file, heartbeat, lpc, process, signalled, stall>>

\* ---- windows/win_mining.py LogReaderManager (it launches ed_log_reader.py)
\* is_running(): the is_running column of the service_status row, nothing else.
is_running == heartbeat.is_running

\* start(): nothing when the heartbeat says running, else Popen.  Also the last
\* step of restart().
LauncherStart ==
  /\ impl = "edlog"
  /\ lpc \in {"idle", "restart_start"}
  /\ IF is_running \/ NextPid = None
     THEN /\ lpc = "restart_start"
          /\ UNCHANGED <<pc, process>>
     ELSE /\ pc' = [pc EXCEPT ![NextPid] = "start"]
          /\ process' = NextPid
  /\ lpc' = "idle"
  /\ UNCHANGED <<tailVars, projVars, dbVars, seedVars, chatVars, exit_status, start_failure, stale,
                 running, database, journal_reader, old_pid, heartbeat_counter, ret,
                 pid_file, heartbeat, signalled, stall>>

\* stop(), also the first step of restart(): update_service_status(is_running=0).
LauncherStop(op) ==
  /\ impl = "edlog"
  /\ lpc = "idle"
  /\ heartbeat' = [heartbeat EXCEPT !.is_running = FALSE]
  /\ lpc' = IF op = "stop" THEN "stop_terminate" ELSE "restart_terminate"
  /\ UNCHANGED <<tailVars, projVars, dbVars, seedVars, chatVars, exit_status, start_failure, stale,
                 pc, running, database, journal_reader, old_pid, heartbeat_counter,
                 ret, pid_file, process, signalled, stall>>

\* self.process.terminate(), when the launcher holds a process.
LauncherTerminate ==
  /\ lpc \in {"stop_terminate", "restart_terminate"}
  /\ IF process # None /\ Signalable(process)
     THEN Deliver(process)
     ELSE UNCHANGED <<pc, ret, signalled>>
  /\ lpc' = IF process = None
            THEN (IF lpc = "stop_terminate" THEN "idle" ELSE "restart_start")
            ELSE (IF lpc = "stop_terminate" THEN "stop_wait" ELSE "restart_wait")
  /\ UNCHANGED <<tailVars, projVars, dbVars, seedVars, chatVars, exit_status, start_failure, stale,
                 running, database, journal_reader, old_pid, heartbeat_counter,
                 pid_file, heartbeat, process, stall>>

\* self.process.wait(timeout=5): the handle is dropped when the process is gone;
\* on a timeout stop() returns with the handle kept.
LauncherWait ==
  /\ lpc \in {"stop_wait", "restart_wait"}
  /\ process' = IF Alive(process) THEN process ELSE None
  /\ lpc' = IF lpc = "stop_wait" THEN "idle" ELSE "restart_start"
  /\ UNCHANGED <<tailVars, projVars, dbVars, seedVars, chatVars, exit_status, start_failure, stale,
                 pc, running, database, journal_reader, old_pid, heartbeat_counter,
                 ret, pid_file, heartbeat, signalled, stall>>

\* ---- the service lifecycle
\* The journal directory is empty or holds one journal; nothing is launched.
SvcInit ==
  /\ impl \in {"gamelog", "edlog"}
  /\ exists \in {{}, {1}}
  /\ content = [f \in Names |-> <<>>]
  /\ mtimeOrd = (IF exists = {} THEN <<>> ELSE <<1>>)
  /\ ctimeOrd = mtimeOrd
  /\ nextId = 1
  /\ truncs = 0
  /\ started = FALSE
  /\ current_file = None
  /\ file_handle = None
  /\ position = 0
  /\ last_line = <<>>
  /\ delivered = <<>>
  /\ followStart = 0
  /\ growOnly = TRUE
  /\ lastPoll = NoPoll
  /\ preOpen = {}
  /\ faults = 0
  /\ events = [f \in Names |-> <<>>]
  /\ scanned = None
  /\ last_timestamp = 0
  /\ shown = <<>>
  /\ ProjIdle
  /\ SvcIdle
  /\ DbIdle

SvcNext ==
  \/ \E p \in Procs : Spawn(p)
  \/ \E p \in Procs : PidFileCheck(p)
  \/ \E p \in Procs : PidFileProbe(p)
  \/ \E p \in Procs : PidFileWrite(p)
  \/ \E p \in Procs : InitService(p)
  \/ \E p \in Procs : EnterLoop(p)
  \/ \E p \in Procs : LoopHeartbeat(p)
  \/ \E p \in Procs : LoopPoll(p)
  \/ \E p \in Procs : GamelogStart(p)
  \/ \E p \in Procs : GamelogStatus(p)
  \/ \E p \in Procs : GamelogSetRunning(p)
  \/ \E p \in Procs : GamelogLoop(p)
  \/ \E p \in Procs : StopFlag(p)
  \/ \E p \in Procs : StopClose(p)
  \/ \E p \in Procs : StopUnlock(p)
  \/ \E p \in Procs : Signal(p)
  \/ \E p \in Procs : Kill(p)
  \/ LauncherStart
  \/ \E op \in {"stop", "restart"} : LauncherStop(op)
  \/ LauncherTerminate
  \/ LauncherWait
  \/ HeartbeatAges

SpecSvc == SvcInit /\ [][SvcNext]_vars

\* --------------------------------------------------- properties: service lifecycle
\* C4: at most one ingestion process is in its Running loop, whatever the
\* interleaving of the starts, the signals and the launcher's start, stop and
\* restart.
C4_SingleIngestion == Cardinality({p \in Procs : InLoop(p)}) <= 1

\* C5: stop() writes running=false before it closes the tail reader and releases
\* the lock: once a process that received a termination signal has passed that
\* write, and for ever after it has exited, the heartbeat record does not show that
\* process as running.
C5_ShutdownOrdering ==
  \A p \in Procs :
    (signalled[p] /\ pc[p] \in {"stop_close", "stop_unlock", "exited"})
      => ~(heartbeat.is_running /\ heartbeat.pid = p)

\* A process that went round its loop has exited after a termination signal.
C5_Witness ==
  \E p \in Procs : signalled[p] /\ pc[p] = "exited" /\ stall[p] > 0

\* C6: while a process is in its Running loop, no more than two iterations of the
\* loop pass without a heartbeat write.
C6_HeartbeatCadence == \A p \in Procs : InLoop(p) => stall[p] <= 2

\* C13: the launcher's is_running() answers "not running" whenever last_heartbeat
\* is more than two polling intervals old, so that a service that died without
\* writing running=false is seen as dead and start() launches a new one.
C13_StaleMeansNotRunning == stale => ~is_running

\* C14: a process whose start failed, because the lock is held or because no
\* journal could be resolved, is never in the Running loop, and when it has exited
\* its exit status is not zero.
C14_StartupFailureTerminal ==
  \A p \in Procs :
    start_failure[p] # "" =>
      /\ ~InLoop(p)
      /\ pc[p] = "exited" => exit_status[p] > 0


\* ==========================================================================
\* The store behind its accessors: DatabaseManager of core/core_database.py
\* (used by the gamelog service and the windows) and DatabaseManager of
\* ed_log_reader.py (used by the edlog service).  impl selects the manager.
\* ==========================================================================

MaxCalls == 3

SetColumns(row, kw) == [f \in DOMAIN row |-> IF f \in DOMAIN kw THEN kw[f] ELSE row[f]]

\* core: UPDATE game_state SET <kwargs>, last_updated = CURRENT_TIMESTAMP
db_update_game_state(d, kw, now) ==
  [d EXCEPT !.game_state = [SetColumns(@, kw) EXCEPT !.last_updated = now]]

\* core: UPDATE ship_status SET <kwargs>, last_updated = CURRENT_TIMESTAMP
db_update_ship_status(d, kw, now) ==
  [d EXCEPT !.ship_status = [SetColumns(@, kw) EXCEPT !.last_updated = now]]

\* core: UPDATE service_status SET <kwargs>   (no stamp of its own)
db_update_service_status(d, kw) ==
  [d EXCEPT !.service_status = SetColumns(@, kw)]

\* edlog: update_service_status(is_running, pid=None, journal_file=None) writes
\* the four columns on every call; a parameter left out is written as NULL.
edlog_update_service_status(d, kw, now) ==
  [d EXCEPT !.service_status =
     [is_running     |-> kw.is_running,
      pid            |-> IF "pid" \in DOMAIN kw THEN kw.pid ELSE None,
      last_heartbeat |-> now,
      journal_file   |-> IF "journal_file" \in DOMAIN kw THEN kw.journal_file ELSE ""]]

CoreManager == impl = "gamelog"

\* The keyword sets the program passes (service_gamelog.py 162-233, 448-505;
\* win_mining.py 103).
GameStateArgs ==
  {[commander_name |-> "Jameson"], [current_system |-> "Sol"], [current_system |-> "Colonia"]}

ShipStatusArgs ==
  {[commander_credits |-> 500], [cargo_capacity |-> 64],
   [cargo_count |-> 5, limpet_count |-> 2]}

ServiceStatusArgs(now) ==
  IF CoreManager
  THEN {[is_running |-> TRUE, pid |-> 1, last_heartbeat |-> now, journal_file |-> "Journal.1.log"],
        [last_heartbeat |-> now],
        [is_running |-> FALSE, last_heartbeat |-> now],
        [is_running |-> FALSE]}
  ELSE {[is_running |-> TRUE, pid |-> 1, journal_file |-> "Journal.1.log"],
        [is_running |-> FALSE, pid |-> None, journal_file |-> ""],
        [is_running |-> FALSE]}

Called(name, kw, res) == call' = [op |-> name, args |-> kw, before |-> db, result |-> res]

UpdateGameState ==
  /\ CoreManager
  /\ db.clock < MaxCalls
  /\ \E kw \in GameStateArgs :
       /\ db' = [db_update_game_state(db, kw, db.clock + 1) EXCEPT !.clock = @ + 1]
       /\ Called("update_game_state", kw, <<>>)
  /\ UNCHANGED <<tailVars, projVars, svcVars, seedVars, chatVars>>

UpdateShipStatus ==
  /\ CoreManager
  /\ db.clock < MaxCalls
  /\ \E kw \in ShipStatusArgs :
       /\ db' = [db_update_ship_status(db, kw, db.clock + 1) EXCEPT !.clock = @ + 1]
       /\ Called("update_ship_status", kw, <<>>)
  /\ UNCHANGED <<tailVars, projVars, svcVars, seedVars, chatVars>>

UpdateServiceStatus ==
  /\ db.clock < MaxCalls
  /\ \E kw \in ServiceStatusArgs(db.clock + 1) :
       /\ db' = [(IF CoreManager THEN db_update_service_status(db, kw)
                                 ELSE edlog_update_service_status(db, kw, db.clock + 1))
                   EXCEPT !.clock = @ + 1]
       /\ Called("update_service_status", kw, <<>>)
  /\ UNCHANGED <<tailVars, projVars, svcVars, seedVars, chatVars>>

DbInit ==
  /\ impl \in {"gamelog", "edlog"}
  /\ exists = {}
  /\ content = [f \in Names |-> <<>>]
  /\ mtimeOrd = <<>>
  /\ ctimeOrd = <<>>
  /\ nextId = 1
  /\ truncs = 0
  /\ started = FALSE
  /\ current_file = None
  /\ file_handle = None
  /\ position = 0
  /\ last_line = <<>>
  /\ delivered = <<>>
  /\ followStart = 0
  /\ growOnly = TRUE
  /\ lastPoll = NoPoll
  /\ preOpen = {}
  /\ faults = 0
  /\ events = [f \in Names |-> <<>>]
  /\ scanned = None
  /\ last_timestamp = 0
  /\ shown = <<>>
  /\ ProjIdle
  /\ SvcIdle
  /\ DbIdle

RowsNext ==
  \/ UpdateGameState
  \/ UpdateShipStatus
  \/ UpdateServiceStatus

SpecRows == DbInit /\ [][RowsNext]_vars

SingletonTables == {"game_state", "ship_status", "service_status"}

UpdatedTable ==
  CASE call.op = "update_game_state"     -> "game_state"
    [] call.op = "update_ship_status"    -> "ship_status"
    [] call.op = "update_service_status" -> "service_status"

StampOf(t) == IF t = "service_status" THEN "last_heartbeat" ELSE "last_updated"

\* C15: after an update_game_state / update_ship_status / update_service_status
\* call, the written row holds the supplied value in every supplied column and
\* its former value in every other column (its own stamp aside), and the other
\* rows are as they were.
C15_PartialUpdates ==
  call.op \in {"update_game_state", "update_ship_status", "update_service_status"} =>
    /\ \A f \in DOMAIN db[UpdatedTable] \ {StampOf(UpdatedTable)} :
         db[UpdatedTable][f] =
           IF f \in DOMAIN call.args THEN call.args[f] ELSE call.before[UpdatedTable][f]
    /\ \A t \in SingletonTables \ {UpdatedTable} : db[t] = call.before[t]


\* ------------------------------------------------------ properties: credits
\* The lines a handler has run for.
Projected == {handled[k] : k \in 1..Len(handled)}

Loads == {i \in Projected : batch[i].event = "LoadGame"}

\* What an event adds to the balance.
Delta(d) ==
  CASE d.event = "MarketSell" -> GetI(d.TotalSale, 0)
    [] d.event = "MarketBuy" -> 0 - GetI(d.TotalCost, 0)
    [] d.event = "SellExplorationData" -> GetI(d.BaseValue, 0) + GetI(d.Bonus, 0)
    [] OTHER -> 0

RECURSIVE DeltaSum(_, _)
DeltaSum(from, to) ==
  IF from > to THEN 0
  ELSE (IF from \in Projected THEN Delta(batch[from]) ELSE 0) + DeltaSum(from + 1, to)

\* C16: with one ingestion process, once a game load has been projected the
\* credit balance is the Credits of the most recent game load plus the sales and
\* exploration-data sales, minus the purchases, projected after that game load.
C16_CreditArithmetic ==
  Loads # {} =>
    store.ship_status.commander_credits =
      batch[SetMax(Loads)].Credits + DeltaSum(SetMax(Loads) + 1, bi - 1)

C16_Witness ==
  /\ Loads # {}
  /\ \E i, j \in Projected :
       /\ SetMax(Loads) < i
       /\ i < j
       /\ batch[i].event \in {"MarketSell", "SellExplorationData"}
       /\ batch[j].event = "MarketBuy"


\* --------------------------------------------------------- chat messages
MaxChat == 2

SenderNames ==
  { <<"System", " ", "Defence", " ", "Patrol">>, <<"SECURITY">>,
    <<"Wing", " ", "Security">>, <<"Pirate", " ", "Lord">>, <<"S", "wing">>,
    <<"System", " ", "Bob">>, <<"Bob">>, <<AbsentStr>> }

ChannelNames ==
  { <<"squadron">>, <<"Squadron">>, <<"SYSTEM">>, <<"local">>, <<"FRIEND">>,
    <<"wing">>, <<"npc">>, <<AbsentStr>> }

ReceiveText ==
  /\ Len(db.chat_messages) < MaxChat
  /\ \E sender \in SenderNames, channel \in ChannelNames :
       LET data == [timestamp |-> "t1", Channel |-> channel, From_Localised |-> sender]
       IN  /\ db' = add_chat_message(db, data)
           /\ Called("add_chat_message", data, <<>>)
  /\ UNCHANGED <<tailVars, projVars, svcVars, seedVars, chatVars>>

ChatInit ==
  /\ DbInit
  /\ impl = "gamelog"

ChatNext == ReceiveText

SpecChat == ChatInit /\ [][ChatNext]_vars

\* The classification rule, tests in lower case, first match wins.
SenderHas(row, key) == In(key, lower(row.from_localised))

ChannelIs(row, name) == lower(row.channel) = name

SenderRule(row) ==
  CASE SenderHas(row, <<"security">>) \/ SenderHas(row, <<"system", " ", "defence">>) -> "sec"
    [] OTHER -> IF SenderHas(row, <<"pirate">>) \/ SenderHas(row, <<"wing">>)
                THEN "pirate" ELSE ""

ChannelRule(row) ==
  CASE ChannelIs(row, <<"system">>) \/ ChannelIs(row, <<"local">>) -> "system"
    [] ChannelIs(row, <<"squadron">>) -> "sq"
    [] ChannelIs(row, <<"friend">>) -> "friends"
    [] OTHER -> "other"

ChatRows == {db.chat_messages[i] : i \in 1..Len(db.chat_messages)}

MaxRows == 3

Limits == {1, 2}

Take(rows, n) == SubSeq(rows, 1, IF n < Len(rows) THEN n ELSE Len(rows))

\* WHERE processed = 0
Unprocessed(d) == SelectSeq(d.prospected_asteroids, LAMBDA r : ~r.processed)

\* The orders ORDER BY timestamp DESC may give the rows in: rows of the same
\* second come in any order.
NewestFirst(rows) ==
  {[i \in 1..Len(rows) |-> rows[order[i]]] :
     order \in {o \in [1..Len(rows) -> 1..Len(rows)] :
                  /\ \A i, j \in 1..Len(rows) : i # j => o[i] # o[j]
                  /\ \A i, j \in 1..Len(rows) :
                       i < j => rows[o[i]].timestamp >= rows[o[j]].timestamp}}

\* core: SELECT ... WHERE processed = 0 ORDER BY timestamp DESC LIMIT ?
core_get_unprocessed_asteroids(d, limit) ==
  {Take(rows, limit) : rows \in NewestFirst(Unprocessed(d))}

\* scanner: SELECT ... WHERE processed = 0 ORDER BY id ASC   (no limit)
reader_get_unprocessed_asteroids(d) == {Unprocessed(d)}

\* INSERT INTO prospected_asteroids (timestamp, ...) VALUES (CURRENT_TIMESTAMP, ...)
InsertAsteroid ==
  /\ Len(db.prospected_asteroids) < MaxRows
  /\ db' = [db EXCEPT !.prospected_asteroids =
              Append(@, [id |-> Len(@) + 1, timestamp |-> db.clock, processed |-> FALSE])]
  /\ Called("insert_asteroid", <<>>, <<>>)
  /\ UNCHANGED <<tailVars, projVars, svcVars, seedVars, chatVars>>

\* A second passes on the clock of the store.
Tick ==
  /\ db.clock < MaxCalls
  /\ db' = [db EXCEPT !.clock = @ + 1]
  /\ UNCHANGED <<call, tailVars, projVars, svcVars, seedVars, chatVars>>

\* UPDATE prospected_asteroids SET processed = 1 WHERE id = ?
mark_asteroid_processed(d, asteroid_id) ==
  [d EXCEPT !.prospected_asteroids =
     [i \in DOMAIN @ |-> IF @[i].id = asteroid_id THEN [@[i] EXCEPT !.processed = TRUE]
                                                   ELSE @[i]]]

MarkAsteroidProcessed ==
  /\ \E i \in 1..Len(db.prospected_asteroids) :
       /\ ~db.prospected_asteroids[i].processed
       /\ db' = mark_asteroid_processed(db, db.prospected_asteroids[i].id)
       /\ Called("mark_asteroid_processed", [asteroid_id |-> i], <<>>)
  /\ UNCHANGED <<tailVars, projVars, svcVars, seedVars, chatVars>>

GetUnprocessedAsteroids ==
  /\ IF CoreManager
     THEN \E limit \in Limits :
            \E res \in core_get_unprocessed_asteroids(db, limit) :
              Called("get_unprocessed_asteroids", [limit |-> limit], res)
     ELSE \E res \in reader_get_unprocessed_asteroids(db) :
            Called("get_unprocessed_asteroids", <<>>, res)
  /\ UNCHANGED <<db, tailVars, projVars, svcVars, seedVars, chatVars>>

AsteroidInit ==
  /\ DbInit
  /\ impl \in {"gamelog", "edlog"}

AsteroidNext ==
  \/ InsertAsteroid
  \/ Tick
  \/ MarkAsteroidProcessed
  \/ GetUnprocessedAsteroids

SpecAsteroids == AsteroidInit /\ [][AsteroidNext]_vars

\* The unprocessed rows, oldest first.
OldestFirst(d) ==
  SelectSeq(d.prospected_asteroids, LAMBDA r : r.processed = FALSE)

\* C18: get_unprocessed_asteroids(limit) returns the unprocessed rows only,
\* oldest first, and no more than limit of them: the limit oldest ones when
\* more than limit rows are unprocessed.
C18_UnprocessedOldestFirst ==
  call.op = "get_unprocessed_asteroids" =>
    call.result =
      (IF "limit" \in DOMAIN call.args
       THEN SubSeq(OldestFirst(call.before), 1,
                   IF call.args.limit < Len(OldestFirst(call.before))
                   THEN call.args.limit ELSE Len(OldestFirst(call.before)))
       ELSE OldestFirst(call.before))


\* ------------------------------------------------------- material_config
MaxSaves == 3

\* A plain INSERT: the row is added whatever rows there are.
insert_material_config(d, cfg) ==
  [d EXCEPT !.material_config =
              Append(@, [id |-> d.material_config_seq + 1] @@ cfg),
            !.material_config_seq = @ + 1]

\* INSERT OR REPLACE INTO material_config: material_name is UNIQUE, so the row
\* that holds the name is deleted and the new row inserted under a fresh id.
save_material_config(d, cfg) ==
  [d EXCEPT !.material_config =
              Append(SelectSeq(@, LAMBDA r : r.material_name # cfg.material_name),
                     [id |-> d.material_config_seq + 1] @@ cfg),
            !.material_config_seq = @ + 1]

\* DELETE FROM material_config WHERE material_name = ?
delete_material_config(d, material_name) ==
  [d EXCEPT !.material_config = SelectSeq(@, LAMBDA r : r.material_name # material_name)]

MaterialNames == {"Platinum", "Painite"}

\* The arguments of a save: the scanner's DatabaseReader always writes enabled = 1.
ConfigArgs ==
  [material_name : MaterialNames, min_percentage : {25, 40}, target_price : {0},
   track_surface : {TRUE}, track_deepcore : BOOLEAN,
   enabled : IF CoreManager THEN BOOLEAN ELSE {TRUE}]

SaveMaterialConfig ==
  /\ db.material_config_seq < MaxSaves
  /\ \E cfg \in ConfigArgs :
       /\ db' = save_material_config(db, cfg)
       /\ Called("save_material_config", cfg, <<>>)
  /\ UNCHANGED <<tailVars, projVars, svcVars, seedVars, chatVars>>

DeleteMaterialConfig ==
  /\ \E name \in MaterialNames :
       /\ db' = delete_material_config(db, name)
       /\ Called("delete_material_config", [material_name |-> name], <<>>)
  /\ UNCHANGED <<tailVars, projVars, svcVars, seedVars, chatVars>>

ConfigInit ==
  /\ DbInit
  /\ impl \in {"gamelog", "edlog"}

ConfigNext ==
  \/ SaveMaterialConfig
  \/ DeleteMaterialConfig

SpecConfig == ConfigInit /\ [][ConfigNext]_vars

\* The values (the row without its id) the table holds for a material name.
ConfigOf(d, name) ==
  {[f \in DOMAIN r \ {"id"} |-> r[f]] :
     r \in {d.material_config[i] :
              i \in {j \in 1..Len(d.material_config) :
                       d.material_config[j].material_name = name}}}

RowCount(d, name) ==
  Cardinality({i \in 1..Len(d.material_config) : d.material_config[i].material_name = name})

\* C19: the table never holds two rows of one material name; a save leaves
\* exactly one row of its name, holding the saved values; a delete leaves no
\* row of its name; and neither touches the rows of the other names -- so the
\* row of a name always holds the values of the latest save for that name.
C19_ConfigUpsert ==
  /\ \A name \in MaterialNames : RowCount(db, name) <= 1
  /\ call.op = "save_material_config" =>
       /\ RowCount(db, call.args.material_name) = 1
       /\ ConfigOf(db, call.args.material_name) = {call.args}
  /\ call.op = "delete_material_config" => RowCount(db, call.args.material_name) = 0
  /\ call.op \in {"save_material_config", "delete_material_config"} =>
       \A name \in MaterialNames \ {call.args.material_name} :
         ConfigOf(db, name) = ConfigOf(call.before, name)

C19_Witness ==
  /\ call.op = "save_material_config"
  /\ RowCount(call.before, call.args.material_name) = 1
  /\ \E old \in ConfigOf(call.before, call.args.material_name) :
       old.min_percentage # call.args.min_percentage
  /\ ConfigOf(db, call.args.material_name) = {call.args}
  /\ Len(db.material_config) = 2


\* ------------------------------------------------- properties: truncation
PollKeepsOffsetInFile ==
  (PollGamelog \/ PollEdlog) => position' <= Len(content'[file_handle'])

\* C20: after every poll of the gamelog or edlog reader the tracked offset is at
\* most the size of the followed file: a file that has become shorter than the
\* offset is reopened, with the offset at its end, before the poll returns.
C20_TruncationHandling == [][PollKeepsOffsetInFile]_vars


\* ------------------------------------------- properties: source unavailable
\* C21: a service whose locator found no journal stays up with its reader
\* unopened, to look again on the next poll: it neither shuts down nor exits.
C21_SourceUnavailableRecoverable ==
  \A p \in Procs :
    start_failure[p] = "no_journal" => (pc[p] # "exited" /\ ~InStop(p))


\* ==========================================================================
\* Polls that meet an I/O error (an OSError out of open, seek, read, getsize or
\* listdir): what the except clauses of the two readers leave behind.
\* ==========================================================================
MaxFaults == 1

\* read_new_lines: check_for_new_file has run, then seek / readlines / tell
\* raises; the except clause returns [] and last_position is not advanced.
GamelogReadFails ==
  /\ impl = "gamelog" /\ started
  /\ faults < MaxFaults
  /\ file_handle # None
  /\ check_for_new_file[2] # Closed
  /\ LET o == check_for_new_file
     IN  /\ current_file' = o[1]
         /\ file_handle' = o[2]
         /\ position' = o[3]
         /\ followStart' = IF o[1] # current_file THEN o[3] ELSE followStart
         /\ growOnly' = (growOnly /\ o[1] = current_file)
         /\ preOpen' = IF o[1] # current_file THEN LineIds(content[o[2]]) ELSE preOpen
  /\ faults' = faults + 1
  /\ UNCHANGED <<exists, content, mtimeOrd, ctimeOrd, nextId, truncs, impl, started,
                 last_line, delivered, lastPoll>>
  /\ UNCHANGED <<projVars, svcVars, dbVars, seedVars, chatVars>>

\* open_journal called by check_for_new_file: the old handle is closed,
\* current_file is set, then open raises; the except clause returns False and
\* the seek of read_new_lines raises on the closed handle.
GamelogOpenFails ==
  /\ impl = "gamelog" /\ started
  /\ faults < MaxFaults
  /\ file_handle # None
  /\ LatestByMtime # None /\ LatestByMtime # current_file
  /\ current_file' = LatestByMtime
  /\ file_handle' = Closed
  /\ growOnly' = FALSE
  /\ faults' = faults + 1
  /\ UNCHANGED <<exists, content, mtimeOrd, ctimeOrd, nextId, truncs, impl, started,
                 position, last_line, delivered, followStart, lastPoll, preOpen>>
  /\ UNCHANGED <<projVars, svcVars, dbVars, seedVars, chatVars>>

\* get_latest_line: the lazy open, readline or getsize raises; the except clause
\* returns None.
EdlogReadFails ==
  /\ impl = "edlog" /\ started
  /\ faults < MaxFaults
  /\ file_handle # Closed
  /\ faults' = faults + 1
  /\ UNCHANGED <<exists, content, mtimeOrd, ctimeOrd, nextId, truncs, impl, started,
                 current_file, file_handle, position, last_line, delivered,
                 followStart, growOnly, lastPoll, preOpen>>
  /\ UNCHANGED <<projVars, svcVars, dbVars, seedVars, chatVars>>

\* get_latest_line, truncation branch: the handle is closed, then
\* _find_latest_journal raises (current_file as it was) or the open raises
\* (current_file re-resolved); the except clause returns None.
EdlogReopenFails ==
  /\ impl = "edlog" /\ started
  /\ faults < MaxFaults
  /\ file_handle \in exists
  /\ ReadLine(From(content[file_handle], position)) = <<>>
  /\ position > Len(content[current_file])
  /\ \E f \in {current_file, LatestByName} : current_file' = f
  /\ file_handle' = Closed
  /\ growOnly' = FALSE
  /\ faults' = faults + 1
  /\ UNCHANGED <<exists, content, mtimeOrd, ctimeOrd, nextId, truncs, impl, started,
                 position, last_line, delivered, followStart, lastPoll, preOpen>>
  /\ UNCHANGED <<projVars, svcVars, dbVars, seedVars, chatVars>>

FaultInit ==
  /\ TailSpecInit
  /\ impl \in {"gamelog", "edlog"}

FaultNext ==
  \/ \E f \in Names : CreateFile(f)
  \/ \E f \in Names : AppendByte(f)
  \/ \E f \in Names : \E n \in 0..(MaxLines * (LineLen + 1)) : Truncate(f, n)
  \/ StartGamelog
  \/ PollGamelog
  \/ StartEdlog
  \/ PollEdlog
  \/ GamelogReadFails
  \/ GamelogOpenFails
  \/ EdlogReadFails
  \/ EdlogReopenFails

SpecFault == FaultInit /\ [][FaultNext]_vars

\* The reader can be polled: it is unopened (the next poll opens) or holds an
\* open handle.
Readable == file_handle = None \/ file_handle \in exists

FailedPoll == GamelogReadFails \/ GamelogOpenFails \/ EdlogReadFails \/ EdlogReopenFails

FailedPollLeavesReadable == FailedPoll => Readable'

\* C22: a poll that meets an I/O error, in the read or while re-resolving and
\* reopening after a rotation or truncation, leaves the reader unopened or with
\* an open handle, so that a later poll reads what has been appended.
C22_PollFailureDoesNotWedge == [][FailedPollLeavesReadable]_vars


\* ==========================================================================
\* The service loop line by line: an iteration reads a batch, hands its lines
\* to the projector one by one, and a signal handler can run between any two
\* of these steps.  (_run_loop of service_gamelog.py, _main_loop of
\* ed_log_reader.py.)
\* ==========================================================================
LoadGameLine ==
  [BlankEvent EXCEPT !.event = "LoadGame", !.Commander = "Jameson", !.Credits = 500]

FSDJumpLine == [BlankEvent EXCEPT !.event = "FSDJump", !.StarSystem = "Sol"]

\* What one poll hands to the loop: read_new_lines returns a list of lines,
\* get_latest_line one line or none.
PolledBatches ==
  IF impl = "gamelog"
  THEN {<<>>, <<LoadGameLine>>, <<LoadGameLine, FSDJumpLine>>, <<FSDJumpLine, LoadGameLine>>}
  ELSE {<<>>, <<LoadGameLine>>, <<FSDJumpLine>>}

\* A loop that never looks at its flag.
LoopForever(p) == TRUE

\* `while self.running:`
LoopContinues(p) == running[p]

\* The top of an iteration: the loop test, ed_log_reader's heartbeat write, and
\* the poll.  The process ends when the test fails.
ReadBatch(p) ==
  /\ pc[p] = "loop"
  /\ IF LoopContinues(p)
     THEN /\ \E lines \in PolledBatches : batch' = lines
          /\ bi' = 1
          /\ handled' = <<>>
          /\ pc' = [pc EXCEPT ![p] = "batch"]
          /\ heartbeat' = IF impl = "edlog" THEN [is_running |-> TRUE, pid |-> p]
                          ELSE heartbeat
          /\ stale' = (IF impl = "edlog" THEN FALSE ELSE stale)
          /\ UNCHANGED exit_status
     ELSE /\ pc' = [pc EXCEPT ![p] = "exited"]
          /\ exit_status' = [exit_status EXCEPT ![p] = 0]
          /\ UNCHANGED <<batch, bi, handled, heartbeat, stale>>
  /\ UNCHANGED <<tailVars, dbVars, seedVars, chatVars, store, rowsBefore, raised, start_failure,
                 running, database, journal_reader, old_pid, heartbeat_counter, ret,
                 pid_file, lpc, process, signalled, stall>>

\* process_line / _process_journal_line for the next line of the batch.
ProjectLine(p) ==
  /\ pc[p] = "batch"
  /\ bi <= Len(batch)
  /\ store' = process_line(store, batch[bi])
  /\ handled' = IF Outcome(batch[bi]) = "handled" THEN Append(handled, bi) ELSE handled
  /\ rowsBefore' = Len(store.prospected_asteroids)
  /\ bi' = bi + 1
  /\ UNCHANGED <<batch, raised, tailVars, svcVars, dbVars, seedVars, chatVars>>

\* The store write of the handler of the next line fails: the handler's (or
\* process_line's) except clause logs it, the line leaves no trace in the store,
\* and the loop goes on with the next line.  The failed line is noted in handled
\* with a negative index.
ProjectLineFails(p) ==
  /\ pc[p] = "batch"
  /\ bi <= Len(batch)
  /\ Outcome(batch[bi]) = "handled"
  /\ handled' = Append(handled, 0 - bi)
  /\ bi' = bi + 1
  /\ UNCHANGED <<batch, store, rowsBefore, raised, tailVars, svcVars, dbVars, seedVars, chatVars>>

\* The heartbeat write of service_gamelog is due in this iteration.
HeartbeatDue(p) == heartbeat_counter[p] + 1 >= heartbeat_interval

\* The rest of the iteration: service_gamelog's counter and heartbeat write, and
\* the sleep.
EndIteration(p) ==
  /\ pc[p] = "batch"
  /\ bi > Len(batch)
  /\ pc' = [pc EXCEPT ![p] = "loop"]
  /\ heartbeat_counter' =
       [heartbeat_counter EXCEPT ![p] =
          IF impl = "gamelog" THEN (IF HeartbeatDue(p) THEN 0 ELSE @ + 1) ELSE @]
  /\ stale' = (IF impl = "gamelog" /\ HeartbeatDue(p) THEN FALSE ELSE stale)
  /\ UNCHANGED <<tailVars, projVars, dbVars, seedVars, chatVars, exit_status, start_failure,
                 running, database, journal_reader, old_pid, ret, pid_file, heartbeat,
                 lpc, process, signalled, stall>>

MaxFailures == 3    \* consecutive failed heartbeat writes of service_gamelog

\* An exception reaches `except Exception` of the loop: the heartbeat write
\* raises (service_gamelog: after the batch, the counter already incremented;
\* ed_log_reader: at the top of the iteration).
IterationFails(p) ==
  /\ IF impl = "gamelog"
     THEN /\ pc[p] = "batch" /\ bi > Len(batch) /\ HeartbeatDue(p)
          /\ heartbeat_counter[p] + 1 < heartbeat_interval + MaxFailures
     ELSE pc[p] = "loop" /\ running[p]
  /\ pc' = [pc EXCEPT ![p] = "error"]
  /\ heartbeat_counter' =
       [heartbeat_counter EXCEPT ![p] = IF impl = "gamelog" THEN @ + 1 ELSE @]
  /\ UNCHANGED <<tailVars, projVars, dbVars, seedVars, chatVars, exit_status, start_failure, stale,
                 running, database, journal_reader, old_pid, ret, pid_file, heartbeat,
                 lpc, process, signalled, stall>>

\* An except clause that ends the loop.
ErrorExits(p) ==
  /\ pc[p] = "error"
  /\ pc' = [pc EXCEPT ![p] = "exited"]
  /\ UNCHANGED <<tailVars, projVars, dbVars, seedVars, chatVars, exit_status, start_failure, stale,
                 running, database, journal_reader, old_pid, heartbeat_counter, ret,
                 pid_file, heartbeat, lpc, process, signalled, stall>>

\* logger.error and time.sleep in the except clause, then the next iteration.
ErrorSleep(p) ==
  /\ pc[p] = "error"
  /\ pc' = [pc EXCEPT ![p] = "loop"]
  /\ UNCHANGED <<tailVars, projVars, dbVars, seedVars, chatVars, exit_status, start_failure, stale,
                 running, database, journal_reader, old_pid, heartbeat_counter, ret,
                 pid_file, heartbeat, lpc, process, signalled, stall>>

\* The termination signal of a shutdown, sent once.
Terminate(p) ==
  /\ ~signalled[p]
  /\ Signal(p)

\* Process 1 has started on a journal and is at the top of its loop.
LoopInit ==
  /\ impl \in {"gamelog", "edlog"}
  /\ exists = {1}
  /\ content = [f \in Names |-> <<>>]
  /\ mtimeOrd = <<1>>
  /\ ctimeOrd = <<1>>
  /\ nextId = 1
  /\ truncs = 0
  /\ started = FALSE
  /\ current_file = None
  /\ file_handle = None
  /\ position = 0
  /\ last_line = <<>>
  /\ delivered = <<>>
  /\ followStart = 0
  /\ growOnly = TRUE
  /\ lastPoll = NoPoll
  /\ preOpen = {}
  /\ faults = 0
  /\ events = [f \in Names |-> <<>>]
  /\ scanned = None
  /\ last_timestamp = 0
  /\ shown = <<>>
  /\ ProjIdle
  /\ DbIdle
  /\ pc = [p \in Procs |-> IF p = 1 THEN "loop" ELSE "idle"]
  /\ running = [p \in Procs |-> p = 1]
  /\ database = [p \in Procs |-> p = 1 /\ impl = "edlog"]
  /\ journal_reader = [p \in Procs |-> IF p = 1 THEN "open" ELSE "none"]
  /\ old_pid = [p \in Procs |-> None]
  /\ heartbeat_counter = [p \in Procs |-> 0]
  /\ ret = [p \in Procs |-> "idle"]
  /\ pid_file = (IF impl = "edlog" THEN 1 ELSE None)
  /\ heartbeat = [is_running |-> TRUE, pid |-> 1]
  /\ lpc = "idle"
  /\ process = None
  /\ signalled = [p \in Procs |-> FALSE]
  /\ stall = [p \in Procs |-> 0]
  /\ stale = FALSE
  /\ exit_status = [p \in Procs |-> 0 - 1]
  /\ start_failure = [p \in Procs |-> ""]

LoopNext ==
  \/ \E p \in Procs : ReadBatch(p)
  \/ \E p \in Procs : ProjectLine(p)
  \/ \E p \in Procs : ProjectLineFails(p)
  \/ \E p \in Procs : EndIteration(p)
  \/ \E p \in Procs : IterationFails(p)
  \/ \E p \in Procs : ErrorSleep(p)
  \/ \E p \in Procs : Terminate(p)
  \/ \E p \in Procs : StopFlag(p)
  \/ \E p \in Procs : StopClose(p)
  \/ \E p \in Procs : StopUnlock(p)

SpecLoop == LoopInit /\ [][LoopNext]_vars

\* ------------------------------------------------- properties: cancellation
CooperativeStep ==
  /\ \A p \in Procs : (running[p] /\ ~running'[p]) => bi > Len(batch)
  /\ Len(handled') > Len(handled) => \E p \in Procs : pc[p] = "batch" /\ running[p]

\* C23: running=false is written only when no line of the current batch is
\* waiting to be projected (the iteration the signal arrived in has run to its
\* end), and no line is projected once running=false has been written.
C23_CooperativeCancellation == [][CooperativeStep]_vars


\* --------------------------------------------------- properties: shutdown
\* A step of a process itself (everything but the arrival of a signal): the
\* operating system keeps scheduling a process that can run.
ProcessStep ==
  \E p \in Procs :
    \/ ReadBatch(p)
    \/ ProjectLine(p)
    \/ ProjectLineFails(p)
    \/ EndIteration(p)
    \/ ErrorSleep(p)
    \/ StopFlag(p)
    \/ StopClose(p)
    \/ StopUnlock(p)

SpecLoopFair == LoopInit /\ [][LoopNext]_vars /\ WF_vars(ProcessStep)

\* No iteration is begun after the signal.
NoIterationAfterSignal ==
  \A p \in Procs : (pc[p] = "loop" /\ pc'[p] = "batch") => ~signalled[p]

\* C24: a Running service that has received a termination signal begins no
\* further iteration and, scheduled fairly, exits -- also when the signal
\* arrived while the loop was handling an error.
C24_ShutdownTerminates ==
  /\ [][NoIterationAfterSignal]_vars
  /\ \A p \in Procs : signalled[p] ~> (pc[p] = "exited")

C24_Witness ==
  \E p \in Procs : signalled[p] /\ ret[p] = "error" /\ pc[p] = "exited"


\* --------------------------------------------- properties: failures in the loop
\* A failure leaves the process in its loop, running as it was.
FailureKeepsLoop ==
  \A p \in Procs :
    /\ (IterationFails(p) \/ ProjectLineFails(p)) =>
         (running'[p] = running[p] /\ pc'[p] \in {"batch", "error"})
    /\ (pc[p] = "error" /\ pc'[p] # "error") => pc'[p] \in {"loop", "stop_flag"}

\* Every line of a finished batch that has a handler was handed to it, the
\* lines after a failed one included.
LinesAfterFailureProjected ==
  \A p \in Procs :
    (pc[p] = "batch" /\ bi > Len(batch)) =>
      \A i \in 1..Len(batch) :
        Outcome(batch[i]) = "handled" =>
          \E k \in 1..Len(handled) : handled[k] = i \/ handled[k] = 0 - i

\* C25: a failed store write while projecting a line or writing the heartbeat
\* is logged and the loop stays Running: the process leaves its loop only after
\* a termination signal, the lines after a failed one are still projected, and
\* a heartbeat write that failed is made again by a later iteration, however
\* many writes fail in a row.
C25_FailuresDoNotStopLoop ==
  /\ [][FailureKeepsLoop]_vars
  /\ [](\A p \in Procs : pc[p] = "exited" => signalled[p])
  /\ []LinesAfterFailureProjected
  /\ \A p \in Procs :
       (heartbeat_counter[p] >= heartbeat_interval)
         ~> (heartbeat_counter[p] = 0 \/ pc[p] = "exited")

C25_Witness ==
  \E p \in Procs :
    /\ running[p] /\ pc[p] = "batch"
    /\ handled = <<0 - 1, 2>>
    /\ heartbeat_counter[p] > heartbeat_interval


\* ---------------------------------------------- the projector and the resets
\* The projector and the reader-side operations of core/core_database.py work on
\* the same tables.  A detection row is named by its position: ids are handed out
\* in insertion order.
FrameLines ==
  { [BlankEvent EXCEPT !.event = "ProspectedAsteroid",
                       !.Materials = <<[Name |-> <<"Platinum">>,
                                        Name_Localised |-> <<AbsentStr>>,
                                        Proportion |-> 63]>>,
                       !.MotherlodeMaterial = <<"Painite">>,
                       !.Content_Localised = <<"Material Content: ", "Medium">>,
                       !.Content = <<"$AsteroidMaterialContent_", "Medium", ";">>],
    [BlankEvent EXCEPT !.event = "MiningRefined", !.Type = <<"Osmium", "_Name">>],
    [BlankEvent EXCEPT !.event = "ReceiveText", !.Channel = <<"Local">>,
                       !.From_Localised = <<"Bob">>],
    [BlankEvent EXCEPT !.event = "FSSSignalDiscovered",
                       !.SignalName = <<"K7Q", " ", "(", "X1", ")">>, !.IsStation = TRUE],
    [BlankEvent EXCEPT !.event = "FSSSignalDiscovered",
                       !.SignalName = <<"Daedalus">>, !.IsStation = TRUE],
    LoadGameLine }

\* UPDATE prospected_asteroids SET processed = 1 WHERE id = ?
MarkProcessed ==
  /\ \E i \in 1..Len(store.prospected_asteroids) :
       /\ ~store.prospected_asteroids[i].processed
       /\ store' = [store EXCEPT !.prospected_asteroids[i].processed = TRUE]
  /\ UNCHANGED <<batch, bi, rowsBefore, handled, raised, tailVars, svcVars, dbVars,
                 seedVars, chatVars>>

\* A clear that takes the refined materials with the detections.
ClearsMiningData(st) ==
  [st EXCEPT !.prospected_asteroids = <<>>, !.refined_materials = <<>>]

\* DELETE FROM prospected_asteroids
clear_asteroids(st) == [st EXCEPT !.prospected_asteroids = <<>>]

\* DELETE FROM refined_materials
clear_refined_materials(st) == [st EXCEPT !.refined_materials = <<>>]

\* DELETE FROM chat_messages
clear_chat_messages(st) == [st EXCEPT !.chat_messages = <<>>]

ClearAsteroids ==
  /\ store.prospected_asteroids # <<>>
  /\ store' = clear_asteroids(store)
  /\ UNCHANGED <<batch, bi, rowsBefore, handled, raised, tailVars, svcVars, dbVars,
                 seedVars, chatVars>>

ClearRefinedMaterials ==
  /\ store.refined_materials # <<>>
  /\ store' = clear_refined_materials(store)
  /\ UNCHANGED <<batch, bi, rowsBefore, handled, raised, tailVars, svcVars, dbVars,
                 seedVars, chatVars>>

ClearChatMessages ==
  /\ store.chat_messages # <<>>
  /\ store' = clear_chat_messages(store)
  /\ UNCHANGED <<batch, bi, rowsBefore, handled, raised, tailVars, svcVars, dbVars,
                 seedVars, chatVars>>

\* The configuration a user saves while the projector runs.
FrameConfigs ==
  {cfg \in ConfigArgs : cfg.min_percentage = 25 /\ cfg.track_deepcore /\ cfg.enabled}

SaveConfig ==
  /\ store.material_config = <<>>
  /\ store.material_config_seq < MaxSaves
  /\ \E cfg \in FrameConfigs : store' = save_material_config(store, cfg)
  /\ UNCHANGED <<batch, bi, rowsBefore, handled, raised, tailVars, svcVars, dbVars,
                 seedVars, chatVars>>

DeleteConfig ==
  /\ \E i \in 1..Len(store.material_config) :
       store' = delete_material_config(store, store.material_config[i].material_name)
  /\ UNCHANGED <<batch, bi, rowsBefore, handled, raised, tailVars, svcVars, dbVars,
                 seedVars, chatVars>>

FrameInit ==
  /\ TailInit
  /\ SvcIdle
  /\ DbIdle
  /\ impl \in {"gamelog", "edlog"}
  /\ batch \in UNION {[1..n -> FrameLines] : n \in 0..MaxBatch}
  /\ bi = 1
  /\ store = EmptyStore
  /\ rowsBefore = 0
  /\ handled = <<>>
  /\ raised = FALSE

FrameNext ==
  \/ ProcessLine
  \/ MarkProcessed
  \/ ClearAsteroids
  \/ ClearRefinedMaterials
  \/ ClearChatMessages
  \/ SaveConfig
  \/ DeleteConfig

SpecFrame == FrameInit /\ [][FrameNext]_vars

\* The tables the projector only ever appends to.
AppendOnly == {"prospected_asteroids", "refined_materials", "chat_messages", "fss_signals"}

CarrierNames(st) == {st.fleet_carriers[i].signal_name : i \in 1..Len(st.fleet_carriers)}

\* What projecting one line leaves alone.
ProjectionKeeps ==
  /\ \A T \in AppendOnly : IsPrefix(store[T], store'[T])
  /\ \A i \in (Len(store.prospected_asteroids) + 1)..Len(store'.prospected_asteroids) :
       ~store'.prospected_asteroids[i].processed
  /\ CarrierNames(store) \subseteq CarrierNames(store')
  /\ store'.material_config = store.material_config

\* The table T is emptied and no other part of the store changes.
OnlyEmptied(T) ==
  /\ store'[T] = <<>>
  /\ \A f \in DOMAIN store : f # T => store'[f] = store[f]

\* C26: projecting an event never deletes a row, never changes the processed flag
\* of an existing detection (a new detection is written unprocessed) and never
\* writes the material configuration; each clear operation empties its own table
\* and nothing else.
C26_ProjectorFrame ==
  [][/\ ProcessLine => ProjectionKeeps
     /\ ClearAsteroids => OnlyEmptied("prospected_asteroids")
     /\ ClearRefinedMaterials => OnlyEmptied("refined_materials")
     /\ ClearChatMessages => OnlyEmptied("chat_messages")]_vars

\* A detection is projected after an earlier one was marked processed and a
\* configuration saved, the earlier row still there and still processed.
C26_Witness ==
  /\ Len(store.prospected_asteroids) >= 2
  /\ store.prospected_asteroids[1].processed
  /\ ~Last(store.prospected_asteroids).processed
  /\ store.material_config # <<>>
  /\ store.refined_materials = <<>>
  /\ bi > 2
  /\ batch[bi - 1].event = "ProspectedAsteroid"
  /\ \E i \in 1..(bi - 2) : batch[i].event = "MiningRefined"


\* ------------------------------------------- identity load and loadout
ShipLines ==
  { LoadGameLine,
    [BlankEvent EXCEPT !.event = "LoadGame", !.Commander = "Braben"],
    [BlankEvent EXCEPT !.event = "Loadout",
                       !.Modules = <<[Item |-> "cargorack", CargoCapacity |-> 64],
                                     [Item |-> "shield", CargoCapacity |-> AbsentInt]>>],
    [BlankEvent EXCEPT !.event = "Loadout",
                       !.Modules = <<[Item |-> "cargorack", CargoCapacity |-> 32],
                                     [Item |-> "cargorack", CargoCapacity |-> 16]>>],
    [BlankEvent EXCEPT !.event = "Loadout",
                       !.Modules = <<[Item |-> "shield", CargoCapacity |-> AbsentInt]>>],
    [BlankEvent EXCEPT !.event = "MarketSell", !.TotalSale = 100],
    [BlankEvent EXCEPT !.event = "Cargo",
                       !.Inventory = <<[Name |-> <<"Platinum">>, Count |-> 5],
                                       [Name |-> <<"Limpet">>, Count |-> 3]>>],
    [BlankEvent EXCEPT !.event = "Cargo",
                       !.Inventory = <<[Name |-> <<"Collector", " ", "LIMPET">>, Count |-> 2]>>],
    [BlankEvent EXCEPT !.event = "Cargo",
                       !.Inventory = <<[Name |-> <<"Platinum">>, Count |-> 1],
                                       [Name |-> <<"Osmium">>, Count |-> 2]>>],
    [BlankEvent EXCEPT !.event = "Cargo"] }

ShipInit ==
  /\ TailInit
  /\ SvcIdle
  /\ DbIdle
  /\ impl \in {"gamelog", "edlog"}
  /\ batch \in UNION {[1..n -> ShipLines] : n \in 0..MaxBatch}
  /\ bi = 1
  /\ store = EmptyStore
  /\ rowsBefore = 0
  /\ handled = <<>>
  /\ raised = FALSE

ShipNext == ProcessLine

SpecShip == ShipInit /\ [][ShipNext]_vars

\* The line a ProcessLine step projects.
Projecting(event) == ProcessLine /\ batch[bi].event = event

\* C27: projecting a LoadGame event overwrites the commander with the event's, and
\* (in the service that keeps a ship status) overwrites the credits with the
\* event's Credits only when the event carries them; without a Credits field the
\* credits stay as they were.
C27_IdentityLoad ==
  [][Projecting("LoadGame") =>
       /\ store'.game_state.commander_name = batch[bi].Commander
       /\ impl = "gamelog" =>
            store'.ship_status.commander_credits =
              (IF batch[bi].Credits # AbsentInt
               THEN batch[bi].Credits
               ELSE store.ship_status.commander_credits)]_vars

\* C28: after a Loadout event is projected the cargo capacity is the sum of the
\* CargoCapacity fields of the event's modules, 0 when no module carries one.
C28_LoadoutCapacity ==
  [][(Projecting("Loadout") /\ impl = "gamelog") =>
       store'.ship_status.cargo_capacity = ModulesCapacity(batch[bi].Modules)]_vars


\* --------------------------------------------- rows of a prospecting event
\* C29: of the rows a prospecting event stores, those for the entries of its
\* material list have deepcore and motherlode unset, whether or not the event
\* carries a motherlode; only a row beyond them (the motherlode row) has both set.
C29_SurfaceRows ==
  AfterProspecting =>
    LET n == Len(LastLine.Materials)
    IN  \A i \in 1..Len(Added) :
          IF i <= n
          THEN ~Added[i].is_deepcore /\ ~Added[i].is_motherlode
          ELSE Added[i].is_deepcore /\ Added[i].is_motherlode

\* The tier a human-readable content descriptor stands for: Low, Medium, High
\* looked for in that order, Unknown when none is there.
TierOf(descriptor) ==
  IF Contains(descriptor, "Low") THEN <<"Low">>
  ELSE IF Contains(descriptor, "Medium") THEN <<"Medium">>
  ELSE IF Contains(descriptor, "High") THEN <<"High">>
  ELSE <<"Unknown">>

\* C30: every row of a prospecting event stores the tier of the event's
\* human-readable content descriptor (Low, Medium, High or Unknown), and all rows
\* of the event carry the same tier, journal timestamp and remaining value.
C30_ContentTier ==
  AfterProspecting =>
    \A i \in 1..Len(Added) :
      /\ Added[i].content_level = TierOf(GetN(LastLine.Content_Localised, <<"Unknown">>))
      /\ Added[i].journal_timestamp = LastLine.timestamp
      /\ Added[i].remaining = Added[1].remaining


\* ------------------------------------------------- discovered signals
SignalNames ==
  { [name |-> <<"K7Q", " ", "(", "X1", ")">>, type |-> <<AbsentStr>>],
    [name |-> <<"Daedalus">>, type |-> <<AbsentStr>>],
    [name |-> <<"Daedalus">>, type |-> <<"FleetCarrier">>] }

SignalLines ==
  { [BlankEvent EXCEPT !.event = "FSSSignalDiscovered", !.SignalName = n.name,
                       !.SignalName_Localised = n.type, !.IsStation = st,
                       !.SystemAddress = a, !.timestamp = IF a = 1 THEN "t1" ELSE "t2"] :
      n \in SignalNames, st \in BOOLEAN, a \in {1, 2} }
    \cup {FSDJumpLine}

SignalInit ==
  /\ TailInit
  /\ SvcIdle
  /\ DbIdle
  /\ impl = "gamelog"
  /\ batch \in UNION {[1..n -> SignalLines] : n \in 0..MaxBatch}
  /\ bi = 1
  /\ store = EmptyStore
  /\ rowsBefore = 0
  /\ handled = <<>>
  /\ raised = FALSE

SignalNext == ProcessLine

SpecSignals == SignalInit /\ [][SignalNext]_vars

\* The event names a carrier: its name ends with ')' or its type (the name, when
\* it carries no type) contains 'FleetCarrier'.
NamesCarrier(d) ==
  \/ Last(d.SignalName) = ")"
  \/ Contains(GetN(d.SignalName_Localised, d.SignalName), "FleetCarrier")

\* C31: a signal-discovered event without the is-station flag creates no carrier
\* and no station row; one with the flag is recorded as a carrier when it names a
\* carrier and is otherwise appended as a station signal, never both.
C31_SignalClassification ==
  [][Projecting("FSSSignalDiscovered") =>
       IF ~batch[bi].IsStation
       THEN /\ store'.fleet_carriers = store.fleet_carriers
            /\ store'.fss_signals = store.fss_signals
       ELSE IF NamesCarrier(batch[bi])
       THEN /\ batch[bi].SignalName \in CarrierNames(store')
            /\ store'.fss_signals = store.fss_signals
       ELSE /\ Len(store'.fss_signals) = Len(store.fss_signals) + 1
            /\ store'.fleet_carriers = store.fleet_carriers]_vars

\* The rows of the carrier table that hold a name.
CarrierRows(st, name) ==
  {i \in 1..Len(st.fleet_carriers) : st.fleet_carriers[i].signal_name = name}

CarrierUnique ==
  \A i, j \in 1..Len(store.fleet_carriers) :
    store.fleet_carriers[i].signal_name = store.fleet_carriers[j].signal_name => i = j

\* What projecting a carrier event, or a station event, does to the two tables.
SignalStep ==
  Projecting("FSSSignalDiscovered") =>
    LET d == batch[bi]
    IN  IF NamesCarrier(d)
        THEN /\ \A i \in CarrierRows(store', d.SignalName) :
                  /\ store'.fleet_carriers[i].system_address = d.SystemAddress
                  /\ store'.fleet_carriers[i].system_name = store.game_state.current_system
                  /\ store'.fleet_carriers[i].discovered_timestamp = d.timestamp
             /\ CarrierRows(store', d.SignalName) # {}
             /\ \A i \in 1..Len(store.fleet_carriers) :
                  store.fleet_carriers[i].signal_name # d.SignalName =>
                    \E j \in 1..Len(store'.fleet_carriers) :
                      store'.fleet_carriers[j] = store.fleet_carriers[i]
        ELSE d.IsStation =>
               /\ Len(store'.fss_signals) = Len(store.fss_signals) + 1
               /\ IsPrefix(store.fss_signals, store'.fss_signals)
               /\ Last(store'.fss_signals).signal_name = d.SignalName

\* C32: the carrier table holds at most one row per signal name, and after a
\* carrier event that row carries the system address, system name and timestamp
\* of that event; every station event adds exactly one row to the station table.
C32_CarrierUpsert == []CarrierUnique /\ [][SignalStep]_vars

\* The same carrier is seen twice, at two addresses, then a station: one carrier
\* row, holding the second sighting, and one station row.
C32_Witness ==
  /\ bi > 3
  /\ Len(store.fleet_carriers) = 1
  /\ NamesCarrier(batch[1]) /\ NamesCarrier(batch[2])
  /\ batch[1].SignalName = batch[2].SignalName
  /\ batch[1].SystemAddress # batch[2].SystemAddress
  /\ store.fleet_carriers[1].system_address = batch[2].SystemAddress
  /\ Len(store.fss_signals) = 1


\* ------------------------------------------------------- cargo snapshot
\* The name holds 'limpet' in any case.
LimpetNamed(item) == \E i \in 1..Len(item.Name) : item.Name[i] \in {"limpet", "Limpet", "LIMPET"}

\* The sum of Count over the items of a manifest at the positions S.
RECURSIVE ManifestSum(_, _)
ManifestSum(inventory, S) ==
  IF S = {}
  THEN 0
  ELSE LET i == CHOOSE x \in S : TRUE
       IN  inventory[i].Count + ManifestSum(inventory, S \ {i})

\* C33: after a Cargo event is projected the limpet count is the sum of Count
\* over the items whose name contains 'limpet' in any case, the cargo count the
\* sum over all other items, both replacing the earlier values, so that the two
\* add up to the manifest total.
C33_CargoSnapshot ==
  [][(Projecting("Cargo") /\ impl = "gamelog") =>
       LET inv     == batch[bi].Inventory
           limpets == {i \in 1..Len(inv) : LimpetNamed(inv[i])}
       IN  /\ store'.ship_status.limpet_count = ManifestSum(inv, limpets)
           /\ store'.ship_status.cargo_count = ManifestSum(inv, (1..Len(inv)) \ limpets)
           /\ store'.ship_status.cargo_count + store'.ship_status.limpet_count
                = ManifestSum(inv, 1..Len(inv))]_vars

\* A manifest of platinum and limpets is projected over the counts of an earlier
\* manifest.
C33_Witness ==
  /\ impl = "gamelog"
  /\ bi > 2
  /\ batch[bi - 1].event = "Cargo"
  /\ batch[bi - 2].event = "Cargo"
  /\ Len(batch[bi - 2].Inventory) = 2
  /\ batch[bi - 2].Inventory # batch[bi - 1].Inventory
  /\ store.ship_status.cargo_count = 5
  /\ store.ship_status.limpet_count = 3


\* ------------------------------------ ed_log_reader.py: the startup scan
MaxSeed == 2        \* lines a journal file holds when the service starts

SeedLines ==
  { LoadGameLine,
    FSDJumpLine,
    [BlankEvent EXCEPT !.event = "Commander", !.Name = "Braben"],
    [BlankEvent EXCEPT !.event = "ProspectedAsteroid",
                       !.Materials = <<[Name |-> <<"Platinum">>,
                                        Name_Localised |-> <<AbsentStr>>,
                                        Proportion |-> 63]>>,
                       !.Content_Localised = <<"Material Content: ", "Medium">>],
    Garbage }

\* The game writes one more line to journal file f.
WriteEvent(f, e) ==
  /\ f \in exists
  /\ Len(events[f]) < MaxSeed
  /\ events' = [events EXCEPT ![f] = Append(@, e)]
  /\ UNCHANGED <<scanned, tailVars, projVars, svcVars, dbVars, chatVars>>

NoState == [commander |-> "", system |-> ""]

\* One turn of `for line in f` in read_initial_state: a line that is not JSON is
\* skipped, an identity or location event replaces what was found before.
ScanLine(found, line) ==
  IF ~line.valid
  THEN found
  ELSE [commander |-> IF line.event = "Commander" THEN GetS(line.Name, "Unknown")
                      ELSE IF line.event = "LoadGame" THEN GetS(line.Commander, "Unknown")
                      ELSE found.commander,
        system |-> IF line.event \in {"Location", "FSDJump", "CarrierJump"}
                   THEN GetS(line.StarSystem, "Unknown")
                   ELSE found.system]

RECURSIVE ScanLines(_, _)
ScanLines(found, lines) ==
  IF lines = <<>> THEN found ELSE ScanLines(ScanLine(found, Head(lines)), Tail(lines))

\* A startup that hands every line of the file to the projector.
RECURSIVE replay_initial_state(_, _)
replay_initial_state(st, lines) ==
  IF lines = <<>>
  THEN st
  ELSE replay_initial_state(process_line(st, Head(lines)), Tail(lines))

\* read_initial_state: the whole file is read, then one update_game_state.
read_initial_state(st, lines) ==
  LET found == ScanLines(NoState, lines)
  IN  IF found.commander # "" \/ found.system # ""
      THEN update_game_state(st, found.commander, found.system)
      ELSE st

\* LogReaderService.start: read_initial_state, after JournalReader() has located
\* the file and before the main loop.
ReadInitialState ==
  /\ impl = "edlog" /\ started
  /\ scanned = None
  /\ store' = read_initial_state(store, events[current_file])
  /\ scanned' = current_file
  /\ UNCHANGED <<events, batch, bi, rowsBefore, handled, raised, tailVars, svcVars, dbVars,
                 chatVars>>

\* The polls of _main_loop, which start() enters after the scan.
MainLoopPoll == scanned # None /\ PollEdlog

SeedInit == TailSpecInit /\ impl = "edlog"

SeedNext ==
  \/ \E f \in Names : CreateFile(f)
  \/ \E f \in Names : \E e \in SeedLines : WriteEvent(f, e)
  \/ StartEdlog
  \/ ReadInitialState
  \/ MainLoopPoll

SpecSeed == SeedInit /\ [][SeedNext]_vars

\* The positions of the lines of a file that are events of one of the kinds.
EventsOf(lines, kinds) == {i \in 1..Len(lines) : lines[i].valid /\ lines[i].event \in kinds}

IdentityEvents == {"Commander", "LoadGame"}

LocationEvents == {"Location", "FSDJump", "CarrierJump"}

\* What the scan of a file must leave in the session state.
SeededCommander(lines) ==
  IF EventsOf(lines, IdentityEvents) = {}
  THEN store.game_state.commander_name
  ELSE LET d == lines[SetMax(EventsOf(lines, IdentityEvents))]
       IN  IF d.event = "Commander" THEN d.Name ELSE d.Commander

SeededSystem(lines) ==
  IF EventsOf(lines, LocationEvents) = {}
  THEN store.game_state.current_system
  ELSE lines[SetMax(EventsOf(lines, LocationEvents))].StarSystem

SeedStep ==
  /\ StartEdlog => current_file' = SetMax(exists)
  /\ ReadInitialState =>
       /\ scanned' = current_file
       /\ store'.game_state.commander_name = SeededCommander(events[current_file])
       /\ store'.game_state.current_system = SeededSystem(events[current_file])
       /\ \A T \in DOMAIN store : T # "game_state" => store'[T] = store[T]
  /\ MainLoopPoll => file_handle' = scanned

\* C34: the service locates the journal file with the greatest name; the startup
\* scan reads that file only and writes only the session state (the commander and
\* the system of the file's latest identity and location events, untouched when
\* it has none), no row of any table; the loop then tails that same file.
C34_StartupSeeding == [][SeedStep]_vars

\* An older file holds a LoadGame event, the newest a Commander event and a
\* prospecting event: after the scan the commander is the newest file's and no
\* detection is stored.
C34_Witness ==
  /\ exists = {1, 2}
  /\ scanned = 2
  /\ file_handle = 2
  /\ EventsOf(events[1], {"LoadGame"}) # {}
  /\ EventsOf(events[2], {"Commander"}) # {}
  /\ EventsOf(events[2], {"ProspectedAsteroid"}) # {}
  /\ store.game_state.commander_name = "Braben"
  /\ store.prospected_asteroids = <<>>


\* ------------------------------------------------- the PID file as a lock
\* The lock of a live owner changes hands only when the owner itself releases it.
LiveLockKept ==
  \A p \in Procs :
    (pid_file = p /\ Alive(p) /\ pid_file' # p) => pc[p] = "stop_unlock"

\* A start that finds the lock of a process that no longer exists takes it over.
StaleLockTaken ==
  \A p \in Procs :
    (PidFileProbe(p) /\ ~Alive(old_pid[p])) => pc'[p] = "pid_write"

\* C35: a start that finds a PID file naming a process that no longer exists
\* reclaims the lock and goes on; the lock of a live owner is never removed or
\* overwritten by the start attempt of another process.
C35_StaleLockReclaim == [][LiveLockKept /\ StaleLockTaken]_vars

\* Process q is in the stop() of a start that was refused because the live
\* process named in the PID file holds the lock, and takes a step of it.
RefusedStep(q) ==
  /\ start_failure[q] = "refused"
  /\ InStop(q)
  /\ old_pid[q] # None /\ old_pid[q] # q
  /\ Alive(old_pid[q])
  /\ pid_file = old_pid[q]
  /\ pc'[q] # pc[q]

\* C37: a start refused because a live instance holds the PID file changes nothing
\* of the holder's: the PID file still names the holder and the heartbeat record
\* still reads running.
C37_RefusedStartLeavesHolder ==
  [][\A q \in Procs : RefusedStep(q) => (pid_file' = pid_file /\ heartbeat' = heartbeat)]_vars


\* C38: whenever an ingestion process is inside its Running loop, the heartbeat
\* record reads running.
C38_RunningFlagMatchesService ==
  \A p \in Procs : InLoop(p) => is_running


\* ------------------------------------------ windows/win_chat.py ChatMonitor
MaxTime == 3        \* seconds of journal time in one behaviour

\* The projector stores a ReceiveText event.  Journal timestamps have a resolution
\* of one second and do not go back.
AppendChat(ts) ==
  /\ Len(db.chat_messages) < MaxChat + 2
  /\ \A i \in 1..Len(db.chat_messages) : db.chat_messages[i].journal_timestamp <= ts
  /\ LET data == [timestamp |-> ts, Channel |-> <<"local">>, From_Localised |-> <<"Bob">>]
     IN  /\ db' = add_chat_message(db, data)
         /\ Called("add_chat_message", data, <<>>)
  /\ UNCHANGED <<tailVars, projVars, svcVars, seedVars, chatVars>>

\* SELECT * FROM chat_messages WHERE journal_timestamp > ? ORDER BY
\* journal_timestamp ASC: the rows, named by their position in the table.
get_new_chat_messages(d, since_ts) ==
  SelectSeq([i \in 1..Len(d.chat_messages) |-> i],
            LAMBDA i : d.chat_messages[i].journal_timestamp > since_ts)

\* ChatMonitor._update_data, when the query returns rows: each is added to the
\* table and the cursor moves to its journal timestamp.
UpdateData ==
  /\ LET messages == get_new_chat_messages(db, last_timestamp)
     IN  /\ messages # <<>>
         /\ shown' = shown \o messages
         /\ last_timestamp' = db.chat_messages[Last(messages)].journal_timestamp
  /\ UNCHANGED <<tailVars, projVars, svcVars, dbVars, seedVars>>

MonitorInit ==
  /\ DbInit
  /\ impl = "gamelog"

MonitorNext ==
  \/ \E ts \in 1..MaxTime : AppendChat(ts)
  \/ UpdateData

SpecMonitor == MonitorInit /\ [][MonitorNext]_vars

\* C39: the chat window shows no stored message twice and skips none: a message
\* the cursor has passed (its timestamp is not after the cursor) has been shown.
C39_ChatCursorOnce ==
  /\ \A i, j \in 1..Len(shown) : shown[i] = shown[j] => i = j
  /\ \A r \in 1..Len(db.chat_messages) :
       db.chat_messages[r].journal_timestamp <= last_timestamp =>
         \E i \in 1..Len(shown) : shown[i] = r


\* ------------------------------------------- re-delivery of snapshot events
SnapshotLines ==
  { LoadGameLine,
    [BlankEvent EXCEPT !.event = "LoadGame", !.Commander = "Braben"],
    FSDJumpLine,
    [BlankEvent EXCEPT !.event = "Location", !.StarSystem = "Deciat"],
    [BlankEvent EXCEPT !.event = "Loadout",
                       !.Modules = <<[Item |-> "cargorack", CargoCapacity |-> 64]>>],
    [BlankEvent EXCEPT !.event = "Loadout",
                       !.Modules = <<[Item |-> "shield", CargoCapacity |-> AbsentInt]>>],
    [BlankEvent EXCEPT !.event = "Cargo",
                       !.Inventory = <<[Name |-> <<"Platinum">>, Count |-> 5],
                                       [Name |-> <<"Limpet">>, Count |-> 3]>>],
    [BlankEvent EXCEPT !.event = "FSSSignalDiscovered",
                       !.SignalName = <<"K7Q", " ", "(", "X1", ")">>, !.IsStation = TRUE,
                       !.SystemAddress = 1],
    [BlankEvent EXCEPT !.event = "FSSSignalDiscovered",
                       !.SignalName = <<"Daedalus">>,
                       !.SignalName_Localised = <<"FleetCarrier">>, !.IsStation = TRUE,
                       !.SystemAddress = 2],
    [BlankEvent EXCEPT !.event = "MarketSell", !.TotalSale = 100] }

SnapshotInit ==
  /\ TailInit
  /\ SvcIdle
  /\ DbIdle
  /\ impl = "gamelog"
  /\ batch \in UNION {[1..n -> SnapshotLines] : n \in 0..MaxBatch}
  /\ bi = 1
  /\ store = EmptyStore
  /\ rowsBefore = 0
  /\ handled = <<>>
  /\ raised = FALSE

SnapshotNext == ProcessLine

SpecSnapshot == SnapshotInit /\ [][SnapshotNext]_vars

\* An identity-load, location-change, loadout, cargo or fleet-carrier signal event.
IsSnapshot(d) ==
  \/ d.event \in {"LoadGame", "Location", "FSDJump", "Loadout", "Cargo"}
  \/ d.event = "FSSSignalDiscovered" /\ NamesCarrier(d)

\* The line about to be projected is the line projected just before it.
Redelivery == bi > 1 /\ bi <= Len(batch) /\ batch[bi] = batch[bi - 1]

\* C36: projecting a snapshot event (identity load, location change, loadout,
\* cargo snapshot, fleet-carrier signal) a second time in succession leaves every
\* table of the store as projecting it once left it.
C36_IdempotentRedelivery ==
  [][(ProcessLine /\ Redelivery /\ IsSnapshot(batch[bi])) => store' = store]_vars

\* A carrier signal is projected twice after another carrier was recorded: two
\* carrier rows, the re-delivered one last.
C36_Witness ==
  /\ bi = 4
  /\ batch[2] = batch[3]
  /\ batch[1] # batch[2]
  /\ batch[2].event = "FSSSignalDiscovered"
  /\ batch[1].event = "FSSSignalDiscovered"
  /\ Len(store.fleet_carriers) = 2
  /\ Last(store.fleet_carriers).signal_name = batch[3].SignalName
====
